---- MODULE Spec2Model ----
(***************************************************************************)
(* State-machine model of the Mopidy speaker/queue synchronisation engine  *)
(* (custom_components/mopidy/speaker.py): the MopidySpeaker aggregator,    *)
(* the MopidyQueue queue model, the enqueue orchestration of play_media    *)
(* and the snapshot/restore controller, running against a model of the     *)
(* Mopidy device reached through MopidyAPI.                                *)
(*                                                                         *)
(* Python's None is the empty tuple and a present value x is <<x>>, so a   *)
(* field of type "T | None" can be compared with any value of its type.    *)
(* A Python dict is a sequence of entries in insertion order, which is the *)
(* order Python iterates it in.                                            *)
(***************************************************************************)
EXTENDS Integers, Sequences, FiniteSets, TLC

VARIABLES
    dev,        \* the Mopidy device behind MopidyAPI
    spk,        \* MopidySpeaker's cached scalar fields (_attr_*); under SpecEntity the
                \* attributes of MopidyMediaPlayerEntity, which talks to the device itself
    queue,      \* MopidyQueue: the dict `queue`, the current-track fields, position and size
    snapshot,   \* MopidySpeaker.snapshot; under SpecEntity the entity's _snapshot
    calls,      \* the MopidyAPI calls issued by the last operation, in order
    lastOp,     \* the last operation, its arguments and how it returned
    now,        \* the local clock, datetime.datetime.now(): a day and an hour of it
    jobs        \* the methods running on worker threads, each with its position

vars == <<dev, spk, queue, snapshot, calls, lastOp, now, jobs>>

-----------------------------------------------------------------------------
(* Bounds of the model *)

\* MopidyAPI objects created before the model stops letting the websocket
\* thread die
MaxApi == 3

\* worker jobs in flight before the model stops handling events that add one
MaxJobs == 3

\* ids (tlids) the device issues before the model stops enqueueing
MaxTlid == 4
\* the same, where snapshots are restored: a restore reissues the whole queue
MaxSnapTlid == 6
\* longest device queue the model builds
MaxLen == 3

None == <<>>
Some(x) == <<x>>
Val(o) == o[1]

Min(a, b) == IF a < b THEN a ELSE b

-----------------------------------------------------------------------------
(* The device: Mopidy core as seen through the RPC calls the engine makes.  *)
(* tracks is the tracklist, a sequence of tl_tracks [tlid, uri]; cur is the *)
(* tlid of the current tl_track; time is the time position in ms;          *)
(* generation is the first tlid issued after the last clear.               *)

Uris(ts) == [i \in 1..Len(ts) |-> ts[i].uri]
Tlids(ts) == {ts[i].tlid : i \in 1..Len(ts)}
TlidSeq(ts) == [i \in 1..Len(ts) |-> ts[i].tlid]

\* tracklist.index(): 0-based index of the current tl_track, None without one
DevIndex(d) ==
    IF d.cur # None /\ \E i \in 1..Len(d.tracks) : d.tracks[i].tlid = Val(d.cur)
    THEN Some((CHOOSE i \in 1..Len(d.tracks) : d.tracks[i].tlid = Val(d.cur)) - 1)
    ELSE None

\* playback.get_current_tl_track()
DevCurrentTlTrack(d) ==
    IF DevIndex(d) = None THEN None ELSE Some(d.tracks[Val(DevIndex(d)) + 1])

\* the tl_tracks tracklist.add(uris, at_position) creates and returns
DevAdded(d, uris) ==
    [i \in 1..Len(uris) |-> [tlid |-> d.nextTlid + i - 1, uri |-> uris[i]]]

\* s with xs inserted before 0-based index at; an index past the end appends,
\* as list.insert does
InsertAt(s, at, xs) ==
    LET p == Min(at, Len(s))
    IN SubSeq(s, 1, p) \o xs \o SubSeq(s, p + 1, Len(s))

\* tracklist.add(uris=uris, at_position=at): at_position None appends
DevAdd(d, uris, at) ==
    [d EXCEPT !.tracks = InsertAt(d.tracks, IF at = None THEN Len(d.tracks) ELSE Val(at),
                                  DevAdded(d, uris)),
              !.nextTlid = d.nextTlid + Len(uris)]

\* tracklist.clear(): the current tl_track is gone, playback stops; ids are not reissued
DevClear(d) ==
    [d EXCEPT !.tracks = <<>>, !.cur = None, !.state = "stopped", !.time = 0,
              !.generation = d.nextTlid]

\* playback.stop(): the current tl_track stays selected
DevStop(d) == [d EXCEPT !.state = "stopped", !.time = 0]

\* playback.play(tlid=t)
DevPlayTlid(d, t) ==
    IF t \in Tlids(d.tracks)
    THEN [d EXCEPT !.cur = Some(t), !.state = "playing", !.time = 0]
    ELSE d

\* playback.play(): resume when paused, else the current tl_track, else the first
DevPlay(d) ==
    IF d.state = "paused" THEN [d EXCEPT !.state = "playing"]
    ELSE IF DevIndex(d) # None THEN [d EXCEPT !.state = "playing", !.time = 0]
    ELSE IF Len(d.tracks) > 0 THEN DevPlayTlid(d, d.tracks[1].tlid)
    ELSE d

\* playback.pause()
DevPause(d) == IF d.state = "playing" THEN [d EXCEPT !.state = "paused"] ELSE d

\* playback.next(): the tl_track after the current one, or the end of playback
DevNext(d) ==
    IF DevIndex(d) = None THEN d
    ELSE IF Val(DevIndex(d)) + 1 < Len(d.tracks)
    THEN [d EXCEPT !.cur = Some(d.tracks[Val(DevIndex(d)) + 2].tlid), !.time = 0]
    ELSE [d EXCEPT !.cur = None, !.state = "stopped", !.time = 0]

\* playback.previous(): the tl_track before the current one, if there is one
DevPrevious(d) ==
    IF DevIndex(d) = None \/ Val(DevIndex(d)) = 0 THEN d
    ELSE [d EXCEPT !.cur = Some(d.tracks[Val(DevIndex(d))].tlid), !.time = 0]

\* playback.seek(ms)
DevSeek(d, ms) == IF DevIndex(d) # None THEN [d EXCEPT !.time = ms] ELSE d

\* mixer.set_volume(v), mixer.set_mute(m)
DevSetVolume(d, v) == [d EXCEPT !.volume = v]
DevSetMute(d, m) == [d EXCEPT !.mute = m]

\* tracklist.set_repeat(r), tracklist.set_single(s)
DevSetRepeat(d, r) == [d EXCEPT !.repeat = r]
DevSetSingle(d, s) == [d EXCEPT !.single = s]

-----------------------------------------------------------------------------
(* The engine's methods.  Each takes and returns a world w: the device, the *)
(* speaker's and the queue's fields, the stored snapshot, the calls issued  *)
(* so far and exc, the exception propagating out of the method (None when   *)
(* it returned normally).  A method entered with an exception pending is    *)
(* not executed.  down is the set of MopidyAPI calls that fail with a       *)
(* requests ConnectionError while the operation runs.                       *)

Call(w, method) == [w EXCEPT !.calls = Append(w.calls, method)]
Raise(w, e) == [w EXCEPT !.exc = Some(e)]
Fails(w, method) == method \in w.down

\* _LOGGER.error(...) in the handler of the failed call `method`
ErrorRecord(method) == "_LOGGER.error " \o method
LogError(w, method) == Call(w, ErrorRecord(method))

NewEntry(tlid) ==
    [tlid |-> tlid, uri |-> None, index |-> None, playlist_name |-> None,
     title |-> None, is_stream |-> None]

HasTlid(qd, tlid) == \E i \in 1..Len(qd) : qd[i].tlid = tlid

\* an update of an entry that keeps only the tlid and the keys of info
MergeDroppingOthers(e, info) ==
    [tlid |-> IF "tlid" \in DOMAIN info THEN info.tlid ELSE e.tlid,
     uri |-> IF "uri" \in DOMAIN info THEN info.uri ELSE None,
     index |-> IF "index" \in DOMAIN info THEN info.index ELSE None,
     playlist_name |-> IF "playlist_name" \in DOMAIN info THEN info.playlist_name ELSE None,
     title |-> IF "title" \in DOMAIN info THEN info.title ELSE None,
     is_stream |-> IF "is_stream" \in DOMAIN info THEN info.is_stream ELSE None]

\* dict.update(info): the keys of info overwrite, the others stay
Merge(e, info) ==
    [tlid |-> IF "tlid" \in DOMAIN info THEN info.tlid ELSE e.tlid,
     uri |-> IF "uri" \in DOMAIN info THEN info.uri ELSE e.uri,
     index |-> IF "index" \in DOMAIN info THEN info.index ELSE e.index,
     playlist_name |-> IF "playlist_name" \in DOMAIN info THEN info.playlist_name
                       ELSE e.playlist_name,
     title |-> IF "title" \in DOMAIN info THEN info.title ELSE e.title,
     is_stream |-> IF "is_stream" \in DOMAIN info THEN info.is_stream ELSE e.is_stream]

\* MopidyQueue.__set_track_info on the dict qd: a new tlid is inserted last
set_track_info(qd, tlid, info) ==
    LET base == IF HasTlid(qd, tlid) THEN qd ELSE Append(qd, NewEntry(tlid))
    IN [i \in 1..Len(base) |-> IF base[i].tlid = tlid THEN Merge(base[i], info) ELSE base[i]]

\* `del self.queue[tlid]` for every tlid of purge: the others keep their order
Purge(qd, purge) == SelectSeq(qd, LAMBDA e : e.tlid \notin purge)

\* MopidyQueue.clear_current_track
clear_current_track(q, t) ==
    [q EXCEPT !.current_track_tlid = None, !.current_track_uri = None,
              !.current_track_position = None,
              !.current_track_position_updated_at = Some(t),
              !.current_track_title = None,
              !.current_track_is_stream = None, !.current_track_image_url = None]

\* MopidyQueue.set_current_track_position
set_current_track_position(q, value, t) ==
    [q EXCEPT !.current_track_position = Some(value),
              !.current_track_position_updated_at = Some(t)]

\* the entry of tlid in the dict qd
Entry(qd, tlid) == qd[CHOOSE i \in 1..Len(qd) : qd[i].tlid = tlid]

\* track.name of the track the device's library holds for a uri
TrackName(uri) == uri

\* MopidyQueue.parse_track_info for a tl_track [tlid, uri]
parse_track_info(q, tl, current) ==
    LET qd == set_track_info(q.queue, tl.tlid,
                             [tlid |-> tl.tlid, uri |-> Some(tl.uri),
                              title |-> Some(TrackName(tl.uri))])
    IN IF current
       THEN [q EXCEPT !.queue = qd, !.current_track_tlid = Some(tl.tlid),
                      !.current_track_uri = Entry(qd, tl.tlid).uri,
                      !.current_track_title = Entry(qd, tl.tlid).title,
                      !.current_track_is_stream = Entry(qd, tl.tlid).is_stream]
       ELSE [q EXCEPT !.queue = qd]

\* MopidyQueue.set_stream_title
set_stream_title(q, stream_title) ==
    LET q1 == [q EXCEPT !.current_track_title = Some(stream_title),
                        !.current_track_is_stream = Some(TRUE)]
    IN IF q1.current_track_tlid # None
       THEN [q1 EXCEPT !.queue = set_track_info(q1.queue, Val(q1.current_track_tlid),
                                                [title |-> Some(stream_title),
                                                 is_stream |-> Some(TRUE)])]
       ELSE q1

\* the second loop of update_tracks: res[i..] get their uri and index
RECURSIVE SetTracks(_, _, _)
SetTracks(qd, res, i) ==
    IF i > Len(res) THEN qd
    ELSE SetTracks(set_track_info(qd, res[i].tlid,
                                  [uri |-> Some(res[i].uri), index |-> Some(i - 1)]),
                   res, i + 1)

\* update_tracks without the purge of the tlids the device no longer reports
update_tracks_without_purge(w, fetched) ==
    IF w.exc # None THEN w
    ELSE LET w1 == Call(w, "tracklist.get_tl_tracks")
         IN IF ~fetched \/ Fails(w1, "tracklist.get_tl_tracks")
            THEN Raise(w1, "AttributeError")
            ELSE [w1 EXCEPT !.queue.queue = SetTracks(w1.queue.queue, w1.dev.tracks, 1)]

\* MopidyQueue.update_tracks; fetched: whether tracklist.get_tl_tracks() answered.
\* The handler of the connection error reads self.hostname, which MopidyQueue
\* does not have: the AttributeError leaves the method.
update_tracks(w, fetched) ==
    IF w.exc # None THEN w
    ELSE LET w1 == Call(w, "tracklist.get_tl_tracks")
         IN IF ~fetched \/ Fails(w1, "tracklist.get_tl_tracks")
            THEN Raise(w1, "AttributeError")
            ELSE LET res == w1.dev.tracks
                     qd == w1.queue.queue
                     purge_queue == {qd[i].tlid : i \in 1..Len(qd)} \ Tlids(res)
                 IN [w1 EXCEPT !.queue.queue = Purge(SetTracks(qd, res, 1), purge_queue)]

\* MopidyQueue.update_queue_information.  The handlers of a failed call read
\* self.hostname, which MopidyQueue does not have: an AttributeError.
update_queue_information(w) ==
    IF w.exc # None THEN w
    ELSE LET w1 == Call(w, "tracklist.index")
         IN IF Fails(w1, "tracklist.index") THEN Raise(w1, "AttributeError")
            ELSE LET w2 == Call([w1 EXCEPT !.queue.queue_position = DevIndex(w1.dev)],
                                "tracklist.get_length")
                 IN IF Fails(w2, "tracklist.get_length") THEN Raise(w2, "AttributeError")
                    ELSE [w2 EXCEPT !.queue.queue_size = Some(Len(w2.dev.tracks))]

\* urllib.parse.urlparse of the image references the device's library answers
\* with: scheme, netloc, path and the query as its key=value pairs in order
urlparse(url) ==
    CASE url = "/local/a.jpg"
            -> [scheme |-> "", netloc |-> "", path |-> "/local/a.jpg", query |-> <<>>]
      [] url = "/local/b.jpg?v=1&v=2&w="
            -> [scheme |-> "", netloc |-> "", path |-> "/local/b.jpg",
                query |-> << <<"v", "1">>, <<"v", "2">>, <<"w", "">> >>]
      [] url = "/local/c.jpg?mopt=20200101"
            -> [scheme |-> "", netloc |-> "", path |-> "/local/c.jpg",
                query |-> << <<"mopt", "20200101">> >>]
      [] url = "https://cdn/d.jpg?s=300"
            -> [scheme |-> "https", netloc |-> "cdn", path |-> "/d.jpg",
                query |-> << <<"s", "300">> >>]
      [] url = "https://cdn/e.jpg?mopt=&s=300"
            -> [scheme |-> "https", netloc |-> "cdn", path |-> "/e.jpg",
                query |-> << <<"mopt", "">>, <<"s", "300">> >>]

\* MopidyQueue.local_url_base as MopidySpeaker.__init__ sets it, parsed
LocalUrlBase == [scheme |-> "http", netloc |-> "mopidy:6680"]

\* urllib.parse.parse_qsl: the pairs with a blank value are dropped
parse_qsl(qs) == SelectSeq(qs, LAMBDA p : p[2] # "")

\* dict(pairs): a key keeps the place of its first pair and the value of its last
RECURSIVE dict(_)
dict(pairs) ==
    IF pairs = <<>> THEN <<>>
    ELSE LET d == dict(SubSeq(pairs, 1, Len(pairs) - 1))
             p == pairs[Len(pairs)]
         IN IF \E i \in 1..Len(d) : d[i][1] = p[1]
            THEN [i \in 1..Len(d) |-> IF d[i][1] = p[1] THEN p ELSE d[i]]
            ELSE Append(d, p)

\* an hour that also enters the stamp
strftime_with_hour(t) == ToString(t.day * 100 + t.hour)

\* datetime.strftime("%Y%m%d")
strftime(t) == ToString(t.day)

\* MopidyQueue.expand_url at the time t; urlencode writes the dict's pairs in order
expand_url(extension, url, t) ==
    LET parsed_url == urlparse(url)
        url1 == IF parsed_url.netloc = ""
                THEN [parsed_url EXCEPT !.scheme = LocalUrlBase.scheme,
                                        !.netloc = LocalUrlBase.netloc]
                ELSE parsed_url
        query == dict(parse_qsl(parsed_url.query))
    IN IF \A i \in 1..Len(query) : query[i][1] # "mopt"
       THEN [url1 EXCEPT !.query = Append(query, <<"mopt", strftime(t)>>)]
       ELSE url1

\* current_image[uri][0].uri of library.get_images([uri]): None when the
\* library has no image of the uri
LibraryImage(uri) ==
    CASE uri = "A" -> Some("/local/a.jpg")
      [] uri = "B" -> Some("https://cdn/d.jpg?s=300")
      [] OTHER -> None

\* MopidyQueue.update_current_image_url with __get_track_image, the library
\* answering current_image: after a failed call the handler falls through to
\* read current_image, which is unbound
update_current_image_url(w, current_image) ==
    IF w.exc # None THEN w
    ELSE IF w.queue.current_track_uri = None
    THEN [w EXCEPT !.queue.current_track_image_url = None]
    ELSE LET w1 == Call(w, "library.get_images")
         IN IF Fails(w1, "library.get_images") THEN Raise(w1, "UnboundLocalError")
            ELSE IF current_image = None
            THEN [w1 EXCEPT !.queue.current_track_image_url = None]
            ELSE [w1 EXCEPT !.queue.current_track_image_url =
                                Some(expand_url(None, Val(current_image), w1.now))]

\* MopidyQueue.__get_current_track_position: after a failed call the handler
\* falls through to read current_media_position, which is unbound
get_current_track_position(w) ==
    IF w.exc # None THEN w
    ELSE LET w1 == Call(w, "playback.get_time_position")
         IN IF Fails(w1, "playback.get_time_position") THEN Raise(w1, "UnboundLocalError")
            ELSE [w1 EXCEPT !.queue = set_current_track_position(
                                          w1.queue, w1.dev.time \div 1000, w1.now)]

\* MopidyQueue.__get_current_track_stream_info
get_current_track_stream_info(w) ==
    IF w.exc # None THEN w
    ELSE LET w1 == Call(w, "playback.get_stream_title")
         IN IF Fails(w1, "playback.get_stream_title") \/ w1.queue.current_track_tlid = None
            THEN w1
            ELSE IF w1.dev.stream_title # None
            THEN [w1 EXCEPT !.queue = set_stream_title(w1.queue, Val(w1.dev.stream_title))]
            ELSE [w1 EXCEPT !.queue.current_track_is_stream = Some(FALSE)]

\* MopidyQueue.update_current_track
update_current_track(w) ==
    IF w.exc # None THEN w
    ELSE LET w1 == Call(w, "playback.get_current_tl_track")
             tl == DevCurrentTlTrack(w1.dev)
         IN IF Fails(w1, "playback.get_current_tl_track") \/ tl = None THEN w1
            ELSE get_current_track_stream_info(get_current_track_position(
                    update_current_image_url(
                        [w1 EXCEPT !.queue = parse_track_info(w1.queue, Val(tl), TRUE)],
                        LibraryImage(Val(tl).uri))))

\* MopidyQueue.update
queue_update(w) == update_current_track(update_tracks(update_queue_information(w), TRUE))

\* MopidyQueue.uri_list: the uris in the dict's iteration order
uri_list(q) == [i \in 1..Len(q.queue) |-> Val(q.queue[i].uri)]

-----------------------------------------------------------------------------
(* MopidySpeaker *)

\* What the device's library answers: playlists.lookup(uri).tracks for an m3u
\* playlist, library.browse(uri) for a directory
LibraryUris(media_id) ==
    CASE media_id = "m3u:mix" -> <<"A", "B">>
      [] media_id = "m3u:empty" -> <<>>
      [] media_id = "dir:lib" -> <<"Z">>
      [] OTHER -> <<>>

PlaylistName(media_id) == media_id

\* MediaPlayerState and RepeatMode are string enums: a member equals its value
PLAYING == "playing"
PAUSED == "paused"
IDLE == "idle"
ONE == "one"
ALL == "all"
OFF == "off"

\* MopidySpeaker.__eval_state
eval_state(PlaybackState) ==
    CASE PlaybackState = "playing" -> Some(PLAYING)
      [] PlaybackState = "paused" -> Some(PAUSED)
      [] PlaybackState = "stopped" -> Some(IDLE)
      [] OTHER -> None

\* a decoding that takes (repeat, single) for ALL and (repeat, not single) for ONE
repeat_mode_of_swapped(repeat, single) ==
    IF repeat /\ single THEN "all"
    ELSE IF repeat /\ ~single THEN "one"
    ELSE "off"

\* the tail of MopidySpeaker.__get_repeat_mode: (repeat, single) to RepeatMode
repeat_mode_of(repeat, single) ==
    IF repeat /\ single THEN ONE
    ELSE IF repeat /\ ~single THEN ALL
    ELSE OFF

\* the `except reConnectionError` handlers of MopidySpeaker's getters
Unavailable(w) ==
    [LogError(w, w.calls[Len(w.calls)]) EXCEPT !.spk.is_available = FALSE]

\* MopidySpeaker.__get_repeat_mode: each failed call leaves its local unbound,
\* and the decoding raises when it comes to read it; `repeat and single` does
\* not read single when repeat is false
get_repeat_mode(w) ==
    IF w.exc # None THEN w
    ELSE LET w1 == IF Fails(w, "tracklist.get_repeat")
                   THEN Unavailable(Call(w, "tracklist.get_repeat"))
                   ELSE Call(w, "tracklist.get_repeat")
             w2 == IF Fails(w, "tracklist.get_single")
                   THEN Unavailable(Call(w1, "tracklist.get_single"))
                   ELSE Call(w1, "tracklist.get_single")
         IN IF Fails(w, "tracklist.get_repeat") THEN Raise(w2, "UnboundLocalError")
            ELSE IF ~w.dev.repeat THEN [w2 EXCEPT !.spk.repeat = Some(OFF)]
            ELSE IF Fails(w, "tracklist.get_single") THEN Raise(w2, "UnboundLocalError")
            ELSE [w2 EXCEPT !.spk.repeat = Some(repeat_mode_of(w.dev.repeat, w.dev.single))]

\* an encoding of ONE that sets single without repeat
set_repeat_mode_single_only(w, value) ==
    IF w.exc # None THEN w
    ELSE LET w1 == Call(Call(w, "tracklist.set_repeat"), "tracklist.set_single")
         IN IF value = ALL
            THEN [w1 EXCEPT !.dev = DevSetSingle(DevSetRepeat(w1.dev, TRUE), FALSE)]
            ELSE IF value = ONE
            THEN [w1 EXCEPT !.dev = DevSetSingle(DevSetRepeat(w1.dev, FALSE), TRUE)]
            ELSE [w1 EXCEPT !.dev = DevSetSingle(DevSetRepeat(w1.dev, FALSE), FALSE)]

\* MopidySpeaker.set_repeat_mode
set_repeat_mode(w, value) ==
    IF w.exc # None THEN w
    ELSE LET w1 == Call(Call(w, "tracklist.set_repeat"), "tracklist.set_single")
         IN IF value = ALL
            THEN [w1 EXCEPT !.dev = DevSetSingle(DevSetRepeat(w1.dev, TRUE), FALSE)]
            ELSE IF value = ONE
            THEN [w1 EXCEPT !.dev = DevSetSingle(DevSetRepeat(w1.dev, TRUE), TRUE)]
            ELSE [w1 EXCEPT !.dev = DevSetSingle(DevSetRepeat(w1.dev, FALSE), FALSE)]

\* MopidySpeaker.__get_shuffle_mode
get_shuffle_mode(w) ==
    IF w.exc # None THEN w
    ELSE IF Fails(w, "tracklist.get_random")
    THEN Unavailable(Call(w, "tracklist.get_random"))
    ELSE [Call(w, "tracklist.get_random") EXCEPT !.spk.shuffle = Some(w.dev.random)]

\* MopidySpeaker.set_shuffle
set_shuffle(w, value) ==
    IF w.exc # None THEN w
    ELSE [Call(w, "tracklist.set_random") EXCEPT !.dev.random = value]

\* MopidySpeaker.__get_consume_mode
get_consume_mode(w) ==
    IF w.exc # None THEN w
    ELSE IF Fails(w, "tracklist.get_consume")
    THEN LET w1 == [Call(w, "tracklist.get_consume") EXCEPT !.spk.is_available = FALSE]
         IN IF w1.spk.first_failure
            THEN LogError([w1 EXCEPT !.spk.first_failure = FALSE], "tracklist.get_consume")
            ELSE w1
    ELSE [Call(w, "tracklist.get_consume") EXCEPT !.spk.consume_mode = Some(w.dev.consume),
                                                  !.spk.first_failure = TRUE]

\* MopidySpeaker.__get_volume, its first try block: the volume
get_volume_level(w) ==
    IF w.exc # None THEN w
    ELSE IF Fails(w, "mixer.get_volume") THEN Unavailable(Call(w, "mixer.get_volume"))
    ELSE [Call(w, "mixer.get_volume") EXCEPT !.spk.volume_level = Some(w.dev.volume)]

\* MopidySpeaker.__get_volume, its second try block: the mute flag
get_volume_mute(w) ==
    IF w.exc # None THEN w
    ELSE IF Fails(w, "mixer.get_mute") THEN Unavailable(Call(w, "mixer.get_mute"))
    ELSE [Call(w, "mixer.get_mute") EXCEPT !.spk.is_volume_muted = Some(w.dev.mute)]

\* MopidySpeaker.__get_volume: the volume and the mute flag, each on its own
get_volume(w) == get_volume_mute(get_volume_level(w))

\* MopidySpeaker.__get_state
get_state(w) ==
    IF w.exc # None THEN w
    ELSE IF Fails(w, "playback.get_state")
    THEN Unavailable(Call(w, "playback.get_state"))
    ELSE [Call(w, "playback.get_state") EXCEPT !.spk.state = eval_state(w.dev.state)]

\* what the device answers to core.get_uri_schemes
UriSchemes == <<"file", "m3u">>

\* MopidySpeaker.__get_supported_uri_schemes
get_supported_uri_schemes(w) ==
    IF w.exc # None THEN w
    ELSE IF Fails(w, "core.get_uri_schemes")
    THEN Unavailable(Call(w, "core.get_uri_schemes"))
    ELSE [Call(w, "core.get_uri_schemes") EXCEPT !.spk.supported_uri_schemes = Some(UriSchemes)]

\* the names of the playlists the device answers to playlists.as_list
PlaylistNames == <<"m3u:mix", "m3u:empty">>

\* MopidySpeaker.__get_source_list with MopidyLibrary.playlists: no handler
\* stands between the call and update()
get_source_list(w) ==
    IF w.exc # None THEN w
    ELSE IF Fails(w, "playlists.as_list")
    THEN Raise(Call(w, "playlists.as_list"), "ConnectionError")
    ELSE [Call(w, "playlists.as_list") EXCEPT !.spk.source_list = Some(PlaylistNames)]

\* a reset that leaves the volume in place
clear_keeping_volume(sp) ==
    [sp EXCEPT !.software_version = None, !.supported_uri_schemes = None,
               !.consume_mode = None, !.source_list = None,
               !.is_volume_muted = None, !.state = None,
               !.repeat = None, !.shuffle = None, !.is_available = FALSE]

\* MopidySpeaker.__clear
clear(sp) ==
    [sp EXCEPT !.software_version = None, !.supported_uri_schemes = None,
               !.consume_mode = None, !.source_list = None,
               !.volume_level = None, !.is_volume_muted = None, !.state = None,
               !.repeat = None, !.shuffle = None, !.is_available = FALSE]

\* the events MopidySpeaker.__connect registers a handler for
EventNames ==
    {"options_changed", "mute_changed", "playback_state_changed", "seeked",
     "stream_title_changed", "track_playback_paused", "track_playback_resumed",
     "track_playback_started", "tracklist_changed", "volume_changed"}

\* a __connect that leaves the seeked event without a handler
connect_without_seeked(w) ==
    [Call(w, "MopidyAPI") EXCEPT !.spk.api = w.spk.api + 1,
                                 !.spk.wsthread_alive = TRUE,
                                 !.spk.callbacks = EventNames \ {"seeked"}]

\* MopidySpeaker.__connect: a new MopidyAPI with its websocket thread, and the
\* ten handlers registered on it
connect(w) ==
    [Call(w, "MopidyAPI") EXCEPT !.spk.api = w.spk.api + 1,
                                 !.spk.wsthread_alive = TRUE,
                                 !.spk.callbacks = EventNames]

\* MopidySpeaker.update: del self.api and __connect() when the websocket
\* thread is found dead
reconnect(w) == IF w.spk.wsthread_alive THEN w ELSE connect(w)

\* MopidySpeaker.update once the version probe has answered, up to the volume
update_head(w1) ==
    get_source_list(get_consume_mode(get_supported_uri_schemes(reconnect(
        [w1 EXCEPT !.spk.software_version = Some(w1.dev.version),
                   !.spk.is_available = TRUE]))))

\* MopidySpeaker.update; up: whether the device answers the version probe
update(w, up) ==
    IF w.exc # None THEN w
    ELSE LET w1 == Call(w, "core.get_version")
         IN IF ~up \/ Fails(w1, "core.get_version")
            THEN [LogError(w1, "core.get_version")
                     EXCEPT !.spk = clear(w1.spk),
                            !.queue = clear_current_track(w1.queue, w1.now)]
            ELSE queue_update(get_repeat_mode(get_state(get_shuffle_mode(
                     get_volume(update_head(w1))))))

\* MopidySpeaker.media_stop: the call as it is, no handler
media_stop(w) ==
    IF w.exc # None THEN w
    ELSE IF Fails(w, "playback.stop") THEN Raise(Call(w, "playback.stop"), "ConnectionError")
    ELSE [Call(w, "playback.stop") EXCEPT !.dev = DevStop(w.dev)]

\* MopidySpeaker.clear_queue: a failed call is logged
clear_queue(w) ==
    IF w.exc # None THEN w
    ELSE IF Fails(w, "tracklist.clear") THEN Unavailable(Call(w, "tracklist.clear"))
    ELSE [Call(w, "tracklist.clear") EXCEPT !.dev = DevClear(w.dev)]

\* MopidySpeaker.media_pause: a failed call is logged
media_pause(w) ==
    IF w.exc # None THEN w
    ELSE IF Fails(w, "playback.pause") THEN Unavailable(Call(w, "playback.pause"))
    ELSE [Call(w, "playback.pause") EXCEPT !.dev = DevPause(w.dev)]

\* MopidySpeaker.media_seek: the call as it is
media_seek(w, value) ==
    IF w.exc # None THEN w
    ELSE IF Fails(w, "playback.seek") THEN Raise(Call(w, "playback.seek"), "ConnectionError")
    ELSE [Call(w, "playback.seek") EXCEPT !.dev = DevSeek(w.dev, value)]

\* MopidySpeaker.media_next_track: a failed call is logged
media_next_track(w) ==
    IF w.exc # None THEN w
    ELSE IF Fails(w, "playback.next") THEN Unavailable(Call(w, "playback.next"))
    ELSE [Call(w, "playback.next") EXCEPT !.dev = DevNext(w.dev)]

\* MopidySpeaker.media_previous_track: the call as it is
media_previous_track(w) ==
    IF w.exc # None THEN w
    ELSE IF Fails(w, "playback.previous")
    THEN Raise(Call(w, "playback.previous"), "ConnectionError")
    ELSE [Call(w, "playback.previous") EXCEPT !.dev = DevPrevious(w.dev)]

\* MopidySpeaker.media_play: without index a plain play; with one, the tl_track
\* at that index of the device's tracklist, inside `except Exception`: an index
\* out of range and a failed call are logged alike
media_play(w, index) ==
    IF w.exc # None THEN w
    ELSE IF index = None
    THEN IF Fails(w, "playback.play") THEN Raise(Call(w, "playback.play"), "ConnectionError")
         ELSE [Call(w, "playback.play") EXCEPT !.dev = DevPlay(w.dev)]
    ELSE LET w1 == Call(w, "tracklist.get_tl_tracks")
             current_tracks == w1.dev.tracks
         IN IF Fails(w, "tracklist.get_tl_tracks") THEN w1
            ELSE IF Val(index) < Len(current_tracks)
            THEN IF Fails(w, "playback.play(tlid)") THEN Call(w1, "playback.play(tlid)")
                 ELSE [Call(w1, "playback.play(tlid)")
                          EXCEPT !.dev = DevPlayTlid(w1.dev, current_tracks[Val(index) + 1].tlid)]
            ELSE w1

\* MopidySpeaker.queue_tracks
queue_tracks(w, uris, at_position) ==
    IF w.exc # None THEN w
    ELSE IF Len(uris) > 0
    THEN IF Fails(w, "tracklist.add") THEN Raise(Call(w, "tracklist.add"), "ConnectionError")
         ELSE update_tracks([Call(w, "tracklist.add")
                                EXCEPT !.dev = DevAdd(w.dev, uris, at_position)], TRUE)
    ELSE w

\* what queue_tracks returns: the tl_tracks the device created
queued_tracks(w, uris) == IF Len(uris) > 0 THEN DevAdded(w.dev, uris) ELSE <<>>

\* the loop of update_queued_tracks over kwargs["tracks"]
RECURSIVE SetPlaylist(_, _, _, _)
SetPlaylist(qd, tracks, name, i) ==
    IF i > Len(tracks) THEN qd
    ELSE SetPlaylist(set_track_info(qd, tracks[i].tlid,
                                    [tlid |-> tracks[i].tlid, playlist_name |-> Some(name)]),
                     tracks, name, i + 1)

\* MopidyQueue.update_queued_tracks
update_queued_tracks(w, media_id, media_type, tracks) ==
    IF w.exc # None THEN w
    ELSE LET w1 == update_tracks(w, TRUE)
         IN IF w1.exc # None THEN w1
            ELSE IF media_type = "playlist"
            THEN IF Fails(w1, "playlists.lookup")
                 THEN Raise(Call(w1, "playlists.lookup"), "ConnectionError")
                 ELSE [Call(w1, "playlists.lookup")
                          EXCEPT !.queue.queue =
                              SetPlaylist(w1.queue.queue, tracks, PlaylistName(media_id), 1)]
            ELSE w1

\* the head of play_media: media_id resolved to the uris to enqueue
media_uris_of(media_type, media_id) ==
    IF media_type \in {"playlist", "directory"} THEN LibraryUris(media_id) ELSE <<media_id>>

resolve_media(w, media_type) ==
    IF media_type = "playlist"
    THEN IF Fails(w, "playlists.lookup")
         THEN Raise(Call(w, "playlists.lookup"), "ConnectionError")
         ELSE Call(w, "playlists.lookup")
    ELSE IF media_type = "directory"
    THEN IF Fails(w, "library.browse")
         THEN Raise(Call(w, "library.browse"), "ConnectionError")
         ELSE Call(w, "library.browse")
    ELSE w

\* an insertion index for NEXT that is the current position itself
next_position_at_current(index) == index

\* the insertion index of enqueue mode NEXT
next_position(index) == Some(Val(index) + 1)

\* the insertion index of enqueue mode PLAY
play_position(position, size) ==
    IF position = None /\ size # None THEN size ELSE position

\* an ADD that inserts at the head of the queue
enqueue_add_at_head(w, media_uris, media_id, media_type) ==
    LET w1 == queue_tracks(w, media_uris, Some(0))
        w2 == IF w1.spk.state # Some(PLAYING) THEN media_play(w1, None) ELSE w1
    IN update_queued_tracks(w2, media_id, media_type, queued_tracks(w, media_uris))

\* play_media, enqueue ADD: append, and play unless the cached state is PLAYING
enqueue_add(w, media_uris, media_id, media_type) ==
    LET w1 == queue_tracks(w, media_uris, None)
        w2 == IF w1.spk.state # Some(PLAYING) THEN media_play(w1, None) ELSE w1
    IN update_queued_tracks(w2, media_id, media_type, queued_tracks(w, media_uris))

\* play_media, enqueue NEXT: insert after the cached queue position; `index+1`
\* of an unknown position is a TypeError
enqueue_next(w, media_uris, media_id, media_type) ==
    LET index == w.queue.queue_position
    IN IF index = None THEN Raise(w, "TypeError")
       ELSE LET w1 == queue_tracks(w, media_uris, next_position(index))
                w2 == IF w1.spk.state # Some(PLAYING) THEN media_play(w1, None) ELSE w1
            IN update_queued_tracks(w2, media_id, media_type, queued_tracks(w, media_uris))

\* play_media, enqueue PLAY: insert at the cached queue position and play there
enqueue_play(w, media_uris, media_id, media_type) ==
    LET index == play_position(w.queue.queue_position, w.queue.queue_size)
        w1 == queue_tracks(w, media_uris, index)
        w2 == media_play(w1, index)
    IN update_queued_tracks(w2, media_id, media_type, queued_tracks(w, media_uris))

\* a REPLACE that does not clear the queue
enqueue_replace_without_clear(w, media_uris, media_id, media_type) ==
    LET w1 == media_stop(w)
        w2 == queue_tracks(w1, media_uris, None)
        w3 == media_play(w2, None)
    IN update_queued_tracks(w3, media_id, media_type, queued_tracks(w1, media_uris))

\* play_media, enqueue REPLACE: stop, clear, enqueue, play
enqueue_replace(w, media_uris, media_id, media_type) ==
    LET w1 == clear_queue(media_stop(w))
        w2 == queue_tracks(w1, media_uris, None)
        w3 == media_play(w2, None)
    IN update_queued_tracks(w3, media_id, media_type, queued_tracks(w1, media_uris))

\* MopidySpeaker.play_media
play_media(w, media_type, media_id, enqueue) ==
    LET w0 == resolve_media(w, media_type)
        media_uris == media_uris_of(media_type, media_id)
    IN IF w0.exc # None THEN w0
       ELSE IF enqueue = "add" THEN enqueue_add(w0, media_uris, media_id, media_type)
       ELSE IF enqueue = "next" THEN enqueue_next(w0, media_uris, media_id, media_type)
       ELSE IF enqueue = "play" THEN enqueue_play(w0, media_uris, media_id, media_type)
       ELSE IF enqueue = "replace"
       THEN enqueue_replace(w0, media_uris, media_id, media_type)
       ELSE Raise(w0, "MissingMediaInformation")

\* MopidySpeaker.select_source: play the playlist of that name
select_source(w, value) ==
    IF w.exc # None THEN w
    ELSE IF Fails(w, "playlists.as_list")
    THEN Raise(Call(w, "playlists.as_list"), "ConnectionError")
    ELSE IF \E i \in 1..Len(PlaylistNames) : PlaylistNames[i] = value
    THEN play_media(Call(w, "playlists.as_list"), "playlist", value, "replace")
    ELSE Raise(Call(w, "playlists.as_list"), "ValueError")

-----------------------------------------------------------------------------
(* The handlers of the device's events, run by MopidyAPI's websocket thread *)

\* self.entity.force_update_ha_state(): the observer is told the state changed
Notify(w) ==
    IF w.exc # None THEN w
    ELSE IF w.spk.entity = None THEN Raise(w, "AttributeError")
    ELSE Call(w, "entity.force_update_ha_state")

\* a seeked handler that also takes the device to be playing
ws_seeked_and_playing(w, time_position) ==
    Notify([w EXCEPT !.queue = set_current_track_position(w.queue, time_position \div 1000,
                                                          w.now),
                     !.spk.state = Some(PLAYING)])

\* MopidySpeaker.__ws_mute_changed
ws_mute_changed(w, mute) == Notify([w EXCEPT !.spk.is_volume_muted = Some(mute)])

\* MopidySpeaker.__ws_volume_changed
ws_volume_changed(w, volume) == Notify([w EXCEPT !.spk.volume_level = Some(volume)])

\* MopidySpeaker.__ws_seeked: int(time_position / 1000)
ws_seeked(w, time_position) ==
    Notify([w EXCEPT !.queue = set_current_track_position(w.queue, time_position \div 1000,
                                                          w.now)])

\* MopidySpeaker.set_consume_mode; value: Some(b) for a boolean b, None for a
\* value that is no boolean
set_consume_mode(w, value) ==
    IF w.exc # None \/ value = None THEN w
    ELSE IF value # w.spk.consume_mode
    THEN LET w1 == Notify([w EXCEPT !.spk.consume_mode = value])
         IN IF w1.exc # None THEN w1
            ELSE IF Fails(w1, "tracklist.set_consume")
            THEN Raise(Call(w1, "tracklist.set_consume"), "ConnectionError")
            ELSE [Call(w1, "tracklist.set_consume") EXCEPT !.dev.consume = Val(value)]
    ELSE w

\* MopidyQueue.update_current_image_url called with the uri of a track
update_current_image_url_for(w, uri) ==
    IF w.exc # None THEN w
    ELSE LET w1 == Call(w, "library.get_images")
             current_image == LibraryImage(uri)
         IN IF Fails(w1, "library.get_images") THEN Raise(w1, "UnboundLocalError")
            ELSE IF current_image = None
            THEN [w1 EXCEPT !.queue.current_track_image_url = None]
            ELSE [w1 EXCEPT !.queue.current_track_image_url =
                                Some(expand_url(None, Val(current_image), w1.now))]

\* a method handed to hass.async_add_executor_job, or started by a caller on a
\* worker of its own: its name, its argument, whether it is given the updater,
\* the stage it is at, and the device's answer it holds and has not yet applied
Job(name, arg, notify) ==
    [name |-> name, arg |-> arg, notify |-> notify, stage |-> 1, seen |-> None]

\* MopidySpeaker.__ws_options_changed
ws_options_changed(w) == Notify(w)
options_changed_jobs ==
    <<Job("get_consume_mode", "", FALSE), Job("get_repeat_mode", "", FALSE),
      Job("get_shuffle_mode", "", FALSE)>>

\* MopidySpeaker.__ws_playback_state_changed
ws_playback_state_changed(w, new_state) ==
    LET w1 == [w EXCEPT !.spk.state = eval_state(new_state)]
    IN Notify(IF new_state = "stopped"
              THEN [w1 EXCEPT !.queue = clear_current_track(w1.queue, w1.now)]
              ELSE w1)
playback_state_changed_jobs(new_state) ==
    IF new_state = "playing" THEN <<Job("update_current_track", "", TRUE)>> ELSE <<>>

\* MopidySpeaker.__ws_track_playback_paused
ws_track_playback_paused(w) == Notify([w EXCEPT !.spk.state = eval_state("paused")])

\* MopidySpeaker.__ws_track_playback_resumed: int(time_position / 1000)
ws_track_playback_resumed(w, tl_track, time_position) ==
    LET w1 == [w EXCEPT !.spk.state = eval_state("playing"),
                        !.queue = parse_track_info(w.queue, tl_track, TRUE)]
    IN Notify([w1 EXCEPT !.queue = set_current_track_position(
                                       w1.queue, time_position \div 1000, w1.now)])

\* MopidySpeaker.__ws_stream_title_changed
ws_stream_title_changed(w, title) ==
    Notify([w EXCEPT !.queue = set_stream_title(w.queue, title)])
stream_title_changed_jobs == <<Job("update_current_track", "", TRUE)>>

\* MopidySpeaker.__ws_track_playback_started
ws_track_playback_started(w, tl_track) ==
    Notify([w EXCEPT !.queue = parse_track_info(w.queue, tl_track, TRUE)])
track_playback_started_jobs(tl_track) ==
    <<Job("update_current_image_url", tl_track.uri, TRUE),
      Job("update_current_track", "", TRUE)>>

\* MopidySpeaker.__ws_tracklist_changed
ws_tracklist_changed(w) == w
tracklist_changed_jobs == <<Job("update_queue_information", "", TRUE)>>

\* the stages of a job: update() getter by getter, queue_tracks() call by call,
\* every other job in one
Program(name) ==
    CASE name = "update" ->
             <<"update_head", "get_volume_level", "get_volume_mute", "get_shuffle_mode",
               "get_state", "get_repeat_mode", "update_queue_information",
               "update_tracks", "update_current_track">>
      [] name = "queue_tracks" -> <<"tracklist.add", "update_tracks">>
      [] OTHER -> <<name>>

\* the stages in which the device's answer and its assignment to the cache
\* are two steps, with room for another thread in between
TwoSteps ==
    {"get_volume_level", "get_volume_mute", "get_state", "update_tracks",
     "update_current_image_url"}

\* what a stage does, as the method of its name
StageOp(stage, arg, w) ==
    CASE stage = "update_head" -> update_head(Call(w, "core.get_version"))
      [] stage = "get_volume_level" -> get_volume_level(w)
      [] stage = "get_volume_mute" -> get_volume_mute(w)
      [] stage = "get_shuffle_mode" -> get_shuffle_mode(w)
      [] stage = "get_state" -> get_state(w)
      [] stage = "get_repeat_mode" -> get_repeat_mode(w)
      [] stage = "get_consume_mode" -> get_consume_mode(w)
      [] stage = "update_queue_information" -> update_queue_information(w)
      [] stage = "update_tracks" -> update_tracks(w, TRUE)
      [] stage = "update_current_track" -> update_current_track(w)
      [] stage = "update_current_image_url" -> update_current_image_url_for(w, arg)
      [] stage = "tracklist.add" ->
             [Call(w, "tracklist.add") EXCEPT !.dev = DevAdd(w.dev, <<arg>>, None)]

-----------------------------------------------------------------------------
(* Snapshot and restore *)

\* iterations restore_snapshot waits for the device to play (`count >= 120`)
PollLimit == 120

\* a set_volume that sends and caches the value as it is given
set_volume_unclamped(w, value) ==
    IF w.exc # None \/ value = None THEN w
    ELSE IF Fails(w, "mixer.set_volume")
    THEN Raise(Call(w, "mixer.set_volume"), "ConnectionError")
    ELSE [Call(w, "mixer.set_volume")
             EXCEPT !.dev = DevSetVolume(w.dev, Val(value)), !.spk.volume_level = value]

\* MopidySpeaker.set_volume
set_volume(w, value) ==
    IF w.exc # None \/ value = None THEN w
    ELSE IF Fails(w, "mixer.set_volume")
    THEN Raise(Call(w, "mixer.set_volume"), "ConnectionError")
    ELSE LET v == IF Val(value) >= 100 THEN 100 ELSE IF Val(value) <= 0 THEN 0 ELSE Val(value)
         IN [Call(w, "mixer.set_volume")
                EXCEPT !.dev = DevSetVolume(w.dev, v), !.spk.volume_level = Some(v)]

\* MopidySpeaker.volume_down
volume_down(w) ==
    IF w.spk.volume_level # None THEN set_volume(w, Some(Val(w.spk.volume_level) - 5)) ELSE w

\* MopidySpeaker.volume_up
volume_up(w) ==
    IF w.spk.volume_level # None THEN set_volume(w, Some(Val(w.spk.volume_level) + 5)) ELSE w

\* MopidySpeaker.set_mute
set_mute(w, value) ==
    IF w.exc # None THEN w
    ELSE IF Fails(w, "mixer.set_mute") THEN Raise(Call(w, "mixer.set_mute"), "ConnectionError")
    ELSE [Call(w, "mixer.set_mute")
             EXCEPT !.dev = IF value = None THEN w.dev ELSE DevSetMute(w.dev, Val(value))]

\* MopidySpeaker.take_snapshot
take_snapshot(w, up) ==
    LET w1 == update(w, up)
    IN IF w1.exc # None THEN w1
       ELSE [w1 EXCEPT !.snapshot = Some(
                [mediaposition |-> w1.queue.current_track_position,
                 muted |-> w1.spk.is_volume_muted,
                 repeat_mode |-> w1.spk.repeat,
                 shuffled |-> w1.spk.shuffle,
                 state |-> w1.spk.state,
                 queue_list |-> uri_list(w1.queue),
                 queue_index |-> w1.queue.queue_position,
                 volume |-> w1.spk.volume_level])]

\* n polls of the playback state
polls(n) == [i \in 1..n |-> "playback.get_state"]

\* a loop that on giving up goes on to the seek and the pause
wait_playing_then_seek(w, tlid, delay) ==
    [w EXCEPT !.calls = w.calls \o polls(Min(delay, PollLimit) + 1)
                            \o (IF delay <= PollLimit THEN <<>> ELSE <<"_LOGGER.error">>),
              !.dev = DevPlayTlid(w.dev, tlid)]

\* the `while True` loop of restore_snapshot after play(tlid), for a device that
\* reports "stopped" to the first `delay` polls and plays from then on: the
\* loop polls with count = 0, 1, ... and gives up at the poll that finds
\* count >= PollLimit, logging the error and dropping the snapshot
wait_playing(w, tlid, delay) ==
    IF delay <= PollLimit
    THEN [w EXCEPT !.calls = w.calls \o polls(delay + 1),
                   !.dev = DevPlayTlid(w.dev, tlid)]
    ELSE [w EXCEPT !.calls = w.calls \o polls(PollLimit + 1) \o <<"_LOGGER.error">>,
                   !.snapshot = None]

\* a restore that pauses before it seeks
restore_playing_pause_first(w, s) ==
    IF s.mediaposition = None THEN Raise(w, "TypeError")
    ELSE LET w1 == IF s.state = Some(PAUSED) THEN media_pause(w) ELSE w
             w2 == IF Val(s.mediaposition) > 0
                   THEN media_seek(w1, Val(s.mediaposition)) ELSE w1
         IN [w2 EXCEPT !.snapshot = None]

\* restore_snapshot once the device plays: seek, pause, drop the snapshot
restore_playing(w, s) ==
    IF s.mediaposition = None THEN Raise(w, "TypeError")
    ELSE LET w1 == IF Val(s.mediaposition) > 0
                   THEN media_seek(w, Val(s.mediaposition)) ELSE w
             w2 == IF s.state = Some(PAUSED) THEN media_pause(w1) ELSE w1
         IN [w2 EXCEPT !.snapshot = None]

\* restore_snapshot past its guard: the snapshot is there
restore_taken(w, delay) ==
    LET s == Val(w.snapshot)
        w1 == clear_queue(media_stop(w))
        w2 == queue_tracks(w1, s.queue_list, None)
        w3 == set_mute(set_volume(w2, s.volume), s.muted)
    IN IF s.state \in {Some(PLAYING), Some(PAUSED)}
       THEN LET w4 == Call(w3, "tracklist.get_tl_tracks")
                current_tracks == w4.dev.tracks
            IN IF s.queue_index = None THEN Raise(w4, "TypeError")
               ELSE IF Val(s.queue_index) >= Len(current_tracks)
               THEN Raise(w4, "IndexError")
               ELSE LET tlid == current_tracks[Val(s.queue_index) + 1].tlid
                        w5 == Call(w4, "playback.play(tlid)")
                        w6 == wait_playing(w5, tlid, delay)
                    IN IF w6.snapshot = None THEN w6 ELSE restore_playing(w6, s)
       ELSE w3

\* a restore whose guard comes after the stop and the clear
restore_snapshot_late_guard(w, delay) ==
    IF w.snapshot = None THEN clear_queue(media_stop(w)) ELSE restore_taken(w, delay)

\* MopidySpeaker.restore_snapshot; delay: the polls the device takes to start
\* playing the tl_track it is told to play
restore_snapshot(w, delay) ==
    IF w.snapshot = None THEN w ELSE restore_taken(w, delay)

-----------------------------------------------------------------------------
(* MopidyMediaPlayerEntity (custom_components/mopidy/media_player.py): the   *)
(* entity whose snapshot() and restore() are registered as services. It      *)
(* holds its own MopidyAPI client and its own _snapshot.                     *)

STATE_OFF == "off"
STATE_PLAYING == "playing"
STATE_PAUSED == "paused"
STATE_UNAVAILABLE == "unavailable"
STATE_UNKNOWN == "unknown"

\* MopidyMediaPlayerEntity.__init__, then a first update() that connected:
\* client is TRUE while self.client and self._available are set
InitEntity ==
    [media_position |-> None, state |-> STATE_UNKNOWN, volume |-> None, muted |-> None,
     shuffled |-> None, repeat_mode |-> None, tracklist_tracks |-> None,
     tracklist_index |-> None, client |-> TRUE]

\* MopidyMediaPlayerEntity._reset_variables: the client and the snapshot go too
reset_variables(w) ==
    [w EXCEPT !.spk = [InitEntity EXCEPT !.client = FALSE], !.snapshot = None]

\* self.client.<method>(...) with the effect d on the device: AttributeError
\* without a client, ConnectionError when the call fails
client_call(w, method, d) ==
    IF w.exc # None THEN w
    ELSE IF ~w.spk.client THEN Raise(w, "AttributeError")
    ELSE IF Fails(w, method) THEN Raise(Call(w, method), "ConnectionError")
    ELSE [Call(w, method) EXCEPT !.dev = d]

\* the volumes v for which int(float(v / 100) * 100) is v - 1 in IEEE doubles
Truncated == {29, 57, 58}

\* float(volume / 100) of _fetch_status, the level being kept as its percentage
volume_level_of(volume) == Some(volume)

\* int(volume * 100) of set_volume_level
int_volume(level) == IF level \in Truncated THEN level - 1 ELSE level

\* the repeat mode _fetch_status derives from repeat and single
entity_repeat_mode(repeat, single) ==
    IF repeat /\ single THEN ONE ELSE IF repeat THEN ALL ELSE OFF

\* the state _fetch_status derives from playback.get_state()
entity_state(state) ==
    IF state = "playing" THEN STATE_PLAYING
    ELSE IF state = "paused" THEN STATE_PAUSED
    ELSE IF state = "stopped" THEN STATE_OFF
    ELSE STATE_UNKNOWN

\* the calls of _fetch_status after playback.get_current_track
FetchCalls ==
    <<"playback.get_stream_title", "core.get_uri_schemes", "playback.get_time_position",
      "playback.get_state", "mixer.get_volume", "mixer.get_mute", "tracklist.get_random",
      "playlists.as_list", "tracklist.get_repeat", "tracklist.get_single",
      "tracklist.get_tracks", "tracklist.index">>

\* MopidyMediaPlayerEntity._fetch_status: a ConnectionError of the first call
\* resets every attribute and leaves the state unavailable
fetch_status(w) ==
    IF w.exc # None THEN w
    ELSE IF ~w.spk.client THEN Raise(w, "AttributeError")
    ELSE IF Fails(w, "playback.get_current_track")
    THEN [reset_variables(Call(w, "playback.get_current_track"))
             EXCEPT !.spk.state = STATE_UNAVAILABLE]
    ELSE [w EXCEPT
             !.calls = w.calls \o <<"playback.get_current_track">> \o FetchCalls,
             !.spk = [w.spk EXCEPT
                 !.media_position = Some(w.dev.time \div 1000),
                 !.state = entity_state(w.dev.state),
                 !.volume = volume_level_of(w.dev.volume),
                 !.muted = Some(w.dev.mute),
                 !.shuffled = Some(w.dev.random),
                 !.repeat_mode = Some(entity_repeat_mode(w.dev.repeat, w.dev.single)),
                 !.tracklist_tracks = Some(Uris(w.dev.tracks)),
                 !.tracklist_index = DevIndex(w.dev)]]

\* MopidyMediaPlayerEntity._connect and update: reconnect when not available
entity_update(w) ==
    IF w.spk.client THEN fetch_status(w)
    ELSE fetch_status([Call(Call(w, "MopidyAPI"), "core.get_version")
                          EXCEPT !.spk.client = TRUE])

\* MopidyMediaPlayerEntity.snapshot
entity_snapshot(w) ==
    LET w1 == fetch_status(w)
    IN IF w1.exc # None THEN w1
       ELSE [w1 EXCEPT !.snapshot = Some(
                [mediaposition |-> w1.spk.media_position,
                 muted |-> w1.spk.muted,
                 repeat_mode |-> w1.spk.repeat_mode,
                 shuffled |-> w1.spk.shuffled,
                 state |-> w1.spk.state,
                 tracklist |-> w1.spk.tracklist_tracks,
                 tracklist_index |-> w1.spk.tracklist_index,
                 volume |-> w1.spk.volume])]

\* MopidyMediaPlayerEntity.media_stop, media_pause, media_seek: the command,
\* then _fetch_status
entity_media_stop(w) == fetch_status(client_call(w, "playback.stop", DevStop(w.dev)))
entity_media_pause(w) == fetch_status(client_call(w, "playback.pause", DevPause(w.dev)))
entity_media_seek(w, position) ==
    fetch_status(client_call(w, "playback.seek", DevSeek(w.dev, position * 1000)))

\* MopidyMediaPlayerEntity.clear_playlist, turn_off, mute_volume, set_shuffle
clear_playlist(w) == client_call(w, "tracklist.clear", DevClear(w.dev))
turn_off(w) == client_call(w, "playback.stop", DevStop(w.dev))
mute_volume(w, mute) == client_call(w, "mixer.set_mute", DevSetMute(w.dev, mute))
entity_set_shuffle(w, shuffle) ==
    client_call(w, "tracklist.set_random", [w.dev EXCEPT !.random = shuffle])

\* MopidyMediaPlayerEntity.set_volume_level: int(volume * 100)
set_volume_level(w, volume) ==
    IF w.exc # None THEN w
    ELSE IF volume = None THEN Raise(w, "TypeError")
    ELSE client_call(w, "mixer.set_volume", DevSetVolume(w.dev, int_volume(Val(volume))))

\* MopidyMediaPlayerEntity.set_repeat
set_repeat(w, repeat) ==
    LET w1 == client_call(w, "tracklist.set_repeat",
                          DevSetRepeat(w.dev, repeat \in {Some(ALL), Some(ONE)}))
    IN client_call(w1, "tracklist.set_single", DevSetSingle(w1.dev, repeat = Some(ONE)))

\* the settings both branches of the restore re-apply, and the end of the snapshot
restore_settings(w, s) ==
    LET w1 == set_volume_level(w, s.volume)
        w2 == mute_volume(w1, Val(s.muted))
        w3 == set_repeat(w2, s.repeat_mode)
        w4 == entity_set_shuffle(w3, Val(s.shuffled))
    IN IF w4.exc # None THEN w4 ELSE [w4 EXCEPT !.snapshot = None]

\* MopidyMediaPlayerEntity.restore_onplay, an async def: when the device plays,
\* seek, pause and re-apply the settings; else sleep a second and return
restore_onplay(w) ==
    LET s == Val(w.snapshot)
        w1 == client_call(w, "playback.get_state", w.dev)
    IN IF w1.exc # None THEN w1
       ELSE IF w1.dev.state = "playing"
       THEN LET w2 == IF Val(s.mediaposition) > 0
                      THEN entity_media_seek(w1, Val(s.mediaposition)) ELSE w1
                w3 == IF s.state = STATE_PAUSED THEN entity_media_pause(w2) ELSE w2
            IN restore_settings(w3, s)
       ELSE w1

\* calling an async def from a def builds a coroutine object; its body runs only
\* if the object is awaited or scheduled, and restore() does neither
Coroutine(w, body) == w

\* MopidyMediaPlayerEntity.restore
entity_restore(w) ==
    IF w.snapshot = None THEN w
    ELSE LET s == Val(w.snapshot)
             w1 == clear_playlist(entity_media_stop(w))
             w2 == IF w1.exc # None THEN w1
                   ELSE IF s.tracklist = None THEN Raise(w1, "TypeError")
                   ELSE client_call(w1, "tracklist.add",
                                    DevAdd(w1.dev, Val(s.tracklist), None))
         IN IF w2.exc # None THEN w2
            ELSE IF s.state = STATE_OFF THEN restore_settings(turn_off(w2), s)
            ELSE IF s.state \in {STATE_PLAYING, STATE_PAUSED}
            THEN LET w3 == client_call(w2, "tracklist.get_tl_tracks", w2.dev)
                     w4 == IF s.tracklist_index = None THEN Raise(w3, "TypeError")
                           ELSE client_call(w3, "playback.play(tlid)",
                                    DevPlayTlid(w3.dev,
                                        w3.dev.tracks[Val(s.tracklist_index) + 1].tlid))
                 IN IF w4.exc # None THEN w4 ELSE Coroutine(w4, restore_onplay(w4))
            ELSE w2

-----------------------------------------------------------------------------
(* Actions: one per operation of the engine, and the device's own changes *)

World ==
    [dev |-> dev, spk |-> spk, queue |-> queue, snapshot |-> snapshot,
     calls |-> <<>>, exc |-> None, down |-> {}, now |-> now]

\* the world of an operation during which the calls of F fail
Failing(F) == [World EXCEPT !.down = F]

Op(name) ==
    [op |-> name, media_id |-> "", enqueue |-> "", value |-> "", down |-> {},
     step |-> "", result |-> "ok"]

\* the operation op ended in world w
Return(w, op) ==
    /\ dev' = w.dev
    /\ spk' = w.spk
    /\ queue' = w.queue
    /\ snapshot' = w.snapshot
    /\ calls' = w.calls
    /\ lastOp' = [op EXCEPT !.result = IF w.exc = None THEN "ok" ELSE Val(w.exc)]
    /\ now' = w.now
    /\ UNCHANGED jobs

\* a change on the device that the engine did not make
Device(d) ==
    /\ dev' = d
    /\ calls' = <<>>
    /\ lastOp' = Op("device")
    /\ UNCHANGED <<spk, queue, snapshot, now, jobs>>

UpdateOf(ups) == \E up \in ups : Return(update(World, up), Op("update"))

\* update(), whether the device answers or not
Update == UpdateOf(BOOLEAN)

\* update() of a device that answers
UpdateUp == UpdateOf({TRUE})

UpdateTracks ==
    \E fetched \in BOOLEAN : Return(update_tracks(World, fetched), Op("update_tracks"))

\* the media play_media is asked for: <<media_type, media_id>>
Media == {<<"track", "Z">>, <<"playlist", "m3u:mix">>, <<"playlist", "m3u:empty">>,
          <<"directory", "dir:lib">>}
MediaType(media_id) == (CHOOSE m \in Media : m[2] = media_id)[1]
MediaUris(media_id) == media_uris_of(MediaType(media_id), media_id)
EnqueueModes == {"add", "next", "play", "replace", "shuffle"}

PlayMediaOf(M, modes, maxTlid) ==
    \E m \in M, enqueue \in modes :
        /\ dev.nextTlid + Len(media_uris_of(m[1], m[2])) - 1 <= maxTlid
        /\ Len(media_uris_of(m[1], m[2]))
             + (IF enqueue = "replace" THEN 0 ELSE Len(dev.tracks)) <= MaxLen
        /\ Return(play_media(World, m[1], m[2], enqueue),
                  [Op("play_media") EXCEPT !.media_id = m[2], !.enqueue = enqueue])

\* a track and the playlists: a directory resolves to uris as a playlist does
PlayMedia == PlayMediaOf(Media \ {<<"directory", "dir:lib">>}, EnqueueModes, MaxTlid)

PlayMediaSnap == PlayMediaOf({<<"track", "Z">>}, {"add", "next", "play"}, MaxSnapTlid)

TakeSnapshot == \E up \in BOOLEAN : Return(take_snapshot(World, up), Op("take_snapshot"))

\* polls the device may take to start playing: at once, late, never in time
StartDelays == {0, PollLimit, PollLimit + 1}

RestoreSnapshot ==
    \E delay \in StartDelays :
        /\ snapshot # None =>
               dev.nextTlid + Len(Val(snapshot).queue_list) - 1 <= MaxSnapTlid
        /\ Return(restore_snapshot(World, delay), Op("restore_snapshot"))

\* the job the event handlers queue: MopidyQueue.update_current_track
UpdateCurrentTrack == Return(update_current_track(World), Op("update_current_track"))

ImageRefs ==
    {"/local/a.jpg", "/local/b.jpg?v=1&v=2&w=", "/local/c.jpg?mopt=20200101",
     "https://cdn/d.jpg?s=300", "https://cdn/e.jpg?mopt=&s=300"}

FirstDay == 20261105
Times == {[day |-> d, hour |-> h] : d \in {FirstDay, FirstDay + 1}, h \in {9, 21}}

\* the job of __ws_track_playback_started, run at the time t, the library
\* answering with the image reference url: MopidyQueue.update_current_image_url
UpdateCurrentImageUrl ==
    \E url \in ImageRefs, t \in Times :
        /\ t.day > now.day \/ (t.day = now.day /\ t.hour >= now.hour)
        /\ Return(update_current_image_url([World EXCEPT !.now = t], Some(url)),
                  [Op("update_current_image_url") EXCEPT !.value = url])

StreamTitles == {"T1", "T2"}

\* the stream the device plays announces a title: __ws_stream_title_changed
WsStreamTitleChanged ==
    \E title \in StreamTitles :
        /\ DevIndex(dev) # None
        /\ dev.stream_title # Some(title)
        /\ dev' = [dev EXCEPT !.stream_title = Some(title)]
        /\ queue' = set_stream_title(queue, title)
        /\ calls' = <<>>
        /\ lastOp' = [Op("stream_title_changed") EXCEPT !.value = title]
        /\ UNCHANGED <<spk, snapshot, now, jobs>>

SetRepeatMode ==
    \E value \in {OFF, ALL, ONE} :
        Return(set_repeat_mode(World, value), [Op("set_repeat_mode") EXCEPT !.value = value])

GetRepeatMode == Return(get_repeat_mode(World), Op("get_repeat_mode"))

SetShuffle ==
    \E value \in BOOLEAN :
        /\ value # dev.random
        /\ Return(set_shuffle(World, value), Op("set_shuffle"))

GetShuffleMode == Return(get_shuffle_mode(World), Op("get_shuffle_mode"))

\* another client of the device flips repeat or single
DeviceOptions ==
    \/ Device(DevSetRepeat(dev, ~dev.repeat))
    \/ Device(DevSetSingle(dev, ~dev.single))

\* the current track ends: the next one starts, or playback stops at the end
DeviceNextTrack ==
    /\ dev.state = "playing"
    /\ DevIndex(dev) # None
    /\ LET i == Val(DevIndex(dev)) + 1
       IN IF i < Len(dev.tracks)
          THEN Device([dev EXCEPT !.cur = Some(dev.tracks[i + 1].tlid), !.time = 0])
          ELSE Device([dev EXCEPT !.cur = None, !.state = "stopped", !.time = 0])

\* another client of the device edits the tracklist
DeviceAdd ==
    \E uri \in {"Z"}, at \in 0..Len(dev.tracks) :
        /\ dev.nextTlid <= MaxTlid
        /\ Len(dev.tracks) < MaxLen
        /\ Device(DevAdd(dev, <<uri>>, Some(at)))

DeviceRemove ==
    \E i \in 1..Len(dev.tracks) :
        LET ts == [j \in 1..(Len(dev.tracks) - 1) |->
                      IF j < i THEN dev.tracks[j] ELSE dev.tracks[j + 1]]
        IN IF dev.cur = Some(dev.tracks[i].tlid)
           THEN Device([dev EXCEPT !.tracks = ts, !.cur = None, !.state = "stopped",
                                   !.time = 0])
           ELSE Device([dev EXCEPT !.tracks = ts])

DeviceClear == Len(dev.tracks) > 0 /\ Device(DevClear(dev))

\* playback progresses
DeviceProgress ==
    /\ dev.state = "playing"
    /\ dev.time = 0
    /\ Device([dev EXCEPT !.time = 2000])

\* the calls update() makes to the device, in order
UpdateCalls ==
    <<"core.get_version", "core.get_uri_schemes", "tracklist.get_consume",
      "playlists.as_list", "mixer.get_volume", "mixer.get_mute",
      "tracklist.get_random", "playback.get_state", "tracklist.get_repeat",
      "tracklist.get_single", "tracklist.index", "tracklist.get_length",
      "tracklist.get_tl_tracks", "playback.get_current_tl_track",
      "library.get_images", "playback.get_time_position",
      "playback.get_stream_title">>

\* the ways the connection fails during one update(): not at all, for one
\* call only, or for every call
FailurePatterns ==
    {{}} \cup {{UpdateCalls[i]} : i \in 1..Len(UpdateCalls)}
         \cup {{UpdateCalls[i] : i \in 1..Len(UpdateCalls)}}

\* update() over a connection that fails for the calls in F
UpdateFailing ==
    \E F \in FailurePatterns :
        Return(update(Failing(F), TRUE), [Op("update") EXCEPT !.down = F])

\* another client of the device changes every setting at once
DeviceSettings ==
    Device([dev EXCEPT !.volume = 90 - dev.volume, !.mute = ~dev.mute,
                       !.random = ~dev.random, !.consume = ~dev.consume,
                       !.repeat = ~dev.repeat, !.single = ~dev.repeat])

\* the calls of steps 1-3 of restore_snapshot
RestoreCalls ==
    {"playback.stop", "tracklist.clear", "tracklist.add", "mixer.set_volume",
     "mixer.set_mute"}

\* take_snapshot() on a device that answers
TakeSnapshotUp == Return(take_snapshot(World, TRUE), Op("take_snapshot"))

\* restore_snapshot() over a connection that fails for at most one of the
\* calls of its steps 1-3, the device starting to play at once
RestoreFailing ==
    \E F \in {{}} \cup {{c} : c \in RestoreCalls} :
        /\ snapshot # None =>
               dev.nextTlid + Len(Val(snapshot).queue_list) - 1 <= MaxSnapTlid
        /\ Return(restore_snapshot(Failing(F), 0), [Op("restore_snapshot") EXCEPT !.down = F])

\* the commands, each over a connection that fails for at most one call
OneOf(cs) == {{}} \cup {{c} : c \in cs}

MediaPlay ==
    \E index \in {None, Some(0), Some(1)},
       F \in OneOf({"playback.play", "tracklist.get_tl_tracks", "playback.play(tlid)"}) :
        Return(media_play(Failing(F), index),
               [Op("media_play") EXCEPT !.value = index, !.down = F])

MediaPause ==
    \E F \in OneOf({"playback.pause"}) :
        Return(media_pause(Failing(F)), [Op("media_pause") EXCEPT !.down = F])

MediaStop ==
    \E F \in OneOf({"playback.stop"}) :
        Return(media_stop(Failing(F)), [Op("media_stop") EXCEPT !.down = F])

MediaNextTrack ==
    \E F \in OneOf({"playback.next"}) :
        Return(media_next_track(Failing(F)), [Op("media_next_track") EXCEPT !.down = F])

MediaPreviousTrack ==
    \E F \in OneOf({"playback.previous"}) :
        Return(media_previous_track(Failing(F)),
               [Op("media_previous_track") EXCEPT !.down = F])

MediaSeek ==
    \E F \in OneOf({"playback.seek"}) :
        Return(media_seek(Failing(F), 2000), [Op("media_seek") EXCEPT !.down = F])

ClearQueue ==
    \E F \in OneOf({"tracklist.clear"}) :
        Return(clear_queue(Failing(F)), [Op("clear_queue") EXCEPT !.down = F])

SelectSource ==
    \E value \in {"m3u:mix", "m3u:none"},
       F \in OneOf({"playlists.as_list", "playlists.lookup", "tracklist.add"}) :
        /\ dev.nextTlid + 1 <= MaxTlid
        /\ Return(select_source(Failing(F), value),
                  [Op("select_source") EXCEPT !.value = value, !.down = F])

PlayMediaFailing ==
    \E m \in {<<"directory", "dir:lib">>, <<"playlist", "m3u:mix">>},
       enqueue \in {"add", "play", "replace"},
       F \in OneOf({"library.browse", "playlists.lookup", "playback.stop", "tracklist.clear",
                    "tracklist.add", "tracklist.get_tl_tracks", "playback.play",
                    "playback.play(tlid)"}) :
        /\ dev.nextTlid + Len(media_uris_of(m[1], m[2])) - 1 <= MaxTlid
        /\ Len(media_uris_of(m[1], m[2]))
             + (IF enqueue = "replace" THEN 0 ELSE Len(dev.tracks)) <= MaxLen
        /\ Return(play_media(Failing(F), m[1], m[2], enqueue),
                  [Op("play_media") EXCEPT !.media_id = m[2], !.enqueue = enqueue,
                                           !.down = F])

\* another client of the device pauses or resumes
DevicePause ==
    \/ dev.state = "playing" /\ Device(DevPause(dev))
    \/ dev.state = "paused" /\ Device(DevPlay(dev))

\* the volumes another client sets
Volumes == {30, 60}

\* the device's volume is changed and the engine handles the event
WsVolumeChanged ==
    \E v \in Volumes :
        /\ v # dev.volume
        /\ Return(ws_volume_changed([World EXCEPT !.dev = DevSetVolume(dev, v)], v),
                  [Op("volume_changed") EXCEPT !.value = v])

\* the device is muted or unmuted and the engine handles the event
WsMuteChanged ==
    \E mute \in BOOLEAN :
        /\ mute # dev.mute
        /\ Return(ws_mute_changed([World EXCEPT !.dev = DevSetMute(dev, mute)], mute),
                  [Op("mute_changed") EXCEPT !.value = mute])

\* the time positions another client seeks to, in milliseconds
SeekPositions == {0, 2000, 2999}

\* another client seeks in the current track and the engine handles the event
WsSeeked ==
    \E ms \in SeekPositions :
        /\ DevIndex(dev) # None
        /\ ms # dev.time
        /\ Return(ws_seeked([World EXCEPT !.dev = DevSeek(dev, ms)], ms),
                  [Op("seeked") EXCEPT !.value = ms])

\* the hour passes
Tick ==
    /\ now.hour < 11
    /\ now' = [now EXCEPT !.hour = now.hour + 1]
    /\ calls' = <<>>
    /\ lastOp' = Op("tick")
    /\ UNCHANGED <<dev, spk, queue, snapshot, jobs>>

\* the handler of an event has returned in world w, having handed the jobs of
\* `scheduled` to the executor
Handled(w, op, scheduled) ==
    /\ Len(jobs) + Len(scheduled) <= MaxJobs
    /\ dev' = w.dev
    /\ spk' = w.spk
    /\ queue' = w.queue
    /\ snapshot' = w.snapshot
    /\ calls' = w.calls
    /\ lastOp' = [op EXCEPT !.result = IF w.exc = None THEN "ok" ELSE Val(w.exc)]
    /\ now' = w.now
    /\ jobs' = jobs \o scheduled

\* a sequence without its i-th element
Without(s, i) == [k \in 1..(Len(s) - 1) |-> IF k < i THEN s[k] ELSE s[k + 1]]

\* job i takes its next step: the device answers the call of its stage, or the
\* stage runs on the answer held (or in one step, for the other stages); the
\* job ends after its last stage, calling the updater it was given, or when a
\* stage raises
JobStep(i) ==
    LET j == jobs[i]
        stage == Program(j.name)[j.stage]
        op == [Op(j.name) EXCEPT !.value = j.arg, !.step = stage]
    IN IF stage \in TwoSteps /\ j.seen = None
       THEN /\ jobs' = [jobs EXCEPT ![i].seen = Some(dev)]
            /\ calls' = <<>>
            /\ lastOp' = [op EXCEPT !.result = "called"]
            /\ UNCHANGED <<dev, spk, queue, snapshot, now>>
       ELSE LET w == StageOp(stage, j.arg,
                             [World EXCEPT !.dev = IF j.seen = None THEN dev ELSE Val(j.seen)])
                last == j.stage = Len(Program(j.name)) \/ w.exc # None
            IN /\ dev' = IF j.seen = None THEN w.dev ELSE dev
               /\ spk' = w.spk
               /\ queue' = w.queue
               /\ snapshot' = w.snapshot
               /\ now' = w.now
               /\ calls' = IF last /\ j.notify /\ w.exc = None THEN Notify(w).calls ELSE w.calls
               /\ lastOp' = [op EXCEPT !.result = IF w.exc = None THEN "ok" ELSE Val(w.exc)]
               /\ jobs' = IF last THEN Without(jobs, i)
                          ELSE [jobs EXCEPT ![i].stage = j.stage + 1, ![i].seen = None]

\* a worker thread runs: any job in flight may be the one to move
RunJob == \E i \in 1..Len(jobs) : JobStep(i)

\* the volumes set_volume is asked for
VolumeValues == {None, Some(0 - 7), Some(0), Some(3), Some(98), Some(100), Some(140)}

SetVolume ==
    \E value \in VolumeValues, F \in OneOf({"mixer.set_volume"}) :
        Return(set_volume(Failing(F), value),
               [Op("set_volume") EXCEPT !.value = value, !.down = F])

VolumeUp ==
    \E F \in OneOf({"mixer.set_volume"}) :
        Return(volume_up(Failing(F)), [Op("volume_up") EXCEPT !.down = F])

VolumeDown ==
    \E F \in OneOf({"mixer.set_volume"}) :
        Return(volume_down(Failing(F)), [Op("volume_down") EXCEPT !.down = F])

\* the integration's setup attaches its entity to the speaker
AttachEntity ==
    /\ spk.entity = None
    /\ Return([World EXCEPT !.spk.entity = Some("media_player")], Op("attach_entity"))

SetConsumeMode ==
    \E value \in {None, Some(TRUE), Some(FALSE)}, F \in OneOf({"tracklist.set_consume"}) :
        Return(set_consume_mode(Failing(F), value),
               [Op("set_consume_mode") EXCEPT !.value = value, !.down = F])

\* the websocket thread of the speaker's MopidyAPI ends (the connection was
\* interrupted)
WsThreadDies ==
    /\ spk.wsthread_alive
    /\ spk.api < MaxApi
    /\ Return([World EXCEPT !.spk.wsthread_alive = FALSE], Op("wsthread_died"))

\* the poll: update() starts on a worker, unless the previous poll is still
\* running
StartUpdate ==
    /\ \A i \in 1..Len(jobs) : jobs[i].name # "update"
    /\ Len(jobs) < MaxJobs
    /\ jobs' = Append(jobs, Job("update", "", FALSE))
    /\ calls' = <<>>
    /\ lastOp' = Op("update_started")
    /\ UNCHANGED <<dev, spk, queue, snapshot, now>>

\* an enqueue (play_media or restore_snapshot reaching queue_tracks) starts on
\* a worker of its own, one enqueue at a time
StartQueueTracks ==
    \E uri \in {"Z"} :
        /\ \A i \in 1..Len(jobs) : jobs[i].name # "queue_tracks"
        /\ dev.nextTlid <= MaxTlid
        /\ Len(dev.tracks) < MaxLen
        /\ Len(jobs) < MaxJobs
        /\ jobs' = Append(jobs, Job("queue_tracks", uri, FALSE))
        /\ calls' = <<>>
        /\ lastOp' = [Op("queue_tracks_started") EXCEPT !.value = uri]
        /\ UNCHANGED <<dev, spk, queue, snapshot, now>>

\* the jobs that have the device's answer to tracklist.get_tl_tracks and are
\* in the loops of update_tracks
InUpdateTracks ==
    {i \in 1..Len(jobs) : Program(jobs[i].name)[jobs[i].stage] = "update_tracks"
                            /\ jobs[i].seen # None}

\* another client flips the device's shuffle or repeat option; the engine
\* handles the event
WsOptionsChanged ==
    \E d \in {[dev EXCEPT !.random = ~dev.random], DevSetRepeat(dev, ~dev.repeat)} :
        Handled(ws_options_changed([World EXCEPT !.dev = d]), Op("options_changed"),
                options_changed_jobs)

\* the device starts, pauses, resumes or stops playing; the engine handles the
\* event
WsPlaybackStateChanged ==
    \E new_state \in {"playing", "paused", "stopped"} :
        LET d == CASE new_state = "playing" -> DevPlay(dev)
                   [] new_state = "paused" -> DevPause(dev)
                   [] new_state = "stopped" -> [DevStop(dev) EXCEPT !.cur = None]
        IN /\ dev.state # new_state
           /\ d.state = new_state
           /\ Handled(ws_playback_state_changed([World EXCEPT !.dev = d], new_state),
                      [Op("playback_state_changed") EXCEPT !.value = new_state],
                      playback_state_changed_jobs(new_state))

\* the device starts playing another tl_track; the engine handles the event
WsTrackPlaybackStarted ==
    \E i \in 1..Len(dev.tracks) :
        /\ dev.state = "playing"
        /\ dev.cur # Some(dev.tracks[i].tlid)
        /\ Handled(ws_track_playback_started(
                       [World EXCEPT !.dev = DevPlayTlid(dev, dev.tracks[i].tlid)],
                       dev.tracks[i]),
                   [Op("track_playback_started") EXCEPT !.value = dev.tracks[i].uri],
                   track_playback_started_jobs(dev.tracks[i]))

\* another client pauses the device; the engine handles the event
WsTrackPlaybackPaused ==
    /\ dev.state = "playing"
    /\ Return(ws_track_playback_paused([World EXCEPT !.dev = DevPause(dev)]),
              Op("track_playback_paused"))

\* another client resumes the paused device; the engine handles the event
WsTrackPlaybackResumed ==
    /\ dev.state = "paused"
    /\ DevCurrentTlTrack(dev) # None
    /\ Return(ws_track_playback_resumed([World EXCEPT !.dev = DevPlay(dev)],
                                        Val(DevCurrentTlTrack(dev)), dev.time * 1000),
              Op("track_playback_resumed"))

\* another client adds a track at the head or the tail of the device's queue;
\* the engine handles the event
WsTracklistChanged ==
    \E at \in {0, Len(dev.tracks)} :
        /\ dev.nextTlid <= MaxTlid
        /\ Len(dev.tracks) < MaxLen
        /\ Handled(ws_tracklist_changed([World EXCEPT !.dev = DevAdd(dev, <<"Z">>, Some(at))]),
                   Op("tracklist_changed"), tracklist_changed_jobs)

\* the stream announces a title; the engine handles the event
WsStreamTitleChangedJob ==
    \E title \in StreamTitles :
        /\ DevIndex(dev) # None
        /\ dev.stream_title # Some(title)
        /\ Handled(ws_stream_title_changed(
                       [World EXCEPT !.dev = [dev EXCEPT !.stream_title = Some(title)]], title),
                   [Op("stream_title_changed") EXCEPT !.value = title],
                   stream_title_changed_jobs)

-----------------------------------------------------------------------------
(* Initial states: the engine as constructed, the device in a state of its own *)

InitSpeaker ==
    [is_available |-> FALSE, software_version |-> None, supported_uri_schemes |-> None,
     consume_mode |-> None, source_list |-> None,
     volume_level |-> None, is_volume_muted |-> None, state |-> None,
     repeat |-> None, shuffle |-> None, first_failure |-> TRUE,
     api |-> 1, wsthread_alive |-> TRUE, callbacks |-> EventNames, library_api |-> 1,
     entity |-> None]

InitQueue ==
    [queue |-> <<>>, current_track_tlid |-> None, current_track_uri |-> None,
     current_track_position |-> None,
     current_track_position_updated_at |-> Some([day |-> FirstDay, hour |-> 9]),
     current_track_title |-> None,
     current_track_is_stream |-> None, current_track_image_url |-> None,
     queue_position |-> None, queue_size |-> None, api |-> 1]

InitTracks == {<<>>, <<[tlid |-> 1, uri |-> "A"], [tlid |-> 2, uri |-> "B"]>>}

InitDevice(tracks, cur, state) ==
    [tracks |-> tracks, nextTlid |-> Len(tracks) + 1, generation |-> 1,
     cur |-> cur, state |-> state,
     time |-> 0, volume |-> 30, mute |-> FALSE, repeat |-> FALSE, single |-> FALSE,
     random |-> FALSE, consume |-> FALSE, stream_title |-> None, version |-> "3.4"]

\* the speaker as constructed, the integration's setup not yet having attached
\* its entity
InitConstructed ==
    /\ spk = InitSpeaker
    /\ queue = InitQueue
    /\ snapshot = None
    /\ calls = <<>>
    /\ lastOp = Op("init")
    /\ now = [day |-> FirstDay, hour |-> 9]
    /\ jobs = <<>>

\* the speaker with its entity attached
InitEngine ==
    /\ spk = [InitSpeaker EXCEPT !.entity = Some("media_player")]
    /\ queue = InitQueue
    /\ snapshot = None
    /\ calls = <<>>
    /\ lastOp = Op("init")
    /\ now = [day |-> FirstDay, hour |-> 9]
    /\ jobs = <<>>

\* the device in a state of its own
InitDev ==
    \E tracks \in InitTracks :
        \/ dev = InitDevice(tracks, None, "stopped")
        \/ \E i \in 1..Len(tracks), st \in {"playing", "paused"} :
               dev = InitDevice(tracks, Some(tracks[i].tlid), st)

Init ==
    /\ InitEngine
    /\ InitDev

\* the speaker right after MopidySpeaker(hass, hostname, port)
InitUnattached ==
    /\ InitConstructed
    /\ InitDev

\* polling and enqueueing while the device plays on
Next ==
    \/ UpdateUp
    \/ PlayMedia
    \/ DeviceNextTrack
    \/ DeviceClear

Spec == Init /\ [][Next]_vars

\* queue reconciliation while other clients edit the device's tracklist
NextTracks ==
    \/ UpdateTracks
    \/ DeviceAdd
    \/ DeviceRemove
    \/ DeviceClear

SpecTracks == Init /\ [][NextTracks]_vars

\* snapshot and restore
NextSnapshot ==
    \/ Update
    \/ PlayMediaSnap
    \/ TakeSnapshot
    \/ RestoreSnapshot
    \/ DeviceProgress

SpecSnapshot == Init /\ [][NextSnapshot]_vars

\* the repeat and shuffle options, set by the engine and by other clients
NextOptions ==
    \/ SetRepeatMode
    \/ GetRepeatMode
    \/ SetShuffle
    \/ GetShuffleMode
    \/ DeviceOptions

SpecOptions == Init /\ [][NextOptions]_vars

\* a stream announcing titles while the queue is reconciled
NextStream ==
    \/ WsStreamTitleChanged
    \/ UpdateCurrentTrack
    \/ UpdateTracks
    \/ DeviceAdd
    \/ DeviceRemove

SpecStream == Init /\ [][NextStream]_vars

\* artwork looked up as the days pass
NextArtwork ==
    \/ UpdateCurrentTrack
    \/ UpdateCurrentImageUrl

SpecArtwork == Init /\ [][NextArtwork]_vars

\* polling over a connection that comes and goes
NextRefresh ==
    \/ UpdateFailing
    \/ DeviceSettings

SpecRefresh == Init /\ [][NextRefresh]_vars

\* snapshots restored over a failing connection, the settings changing between
NextRestore ==
    \/ TakeSnapshotUp
    \/ RestoreFailing
    \/ DeviceSettings

SpecRestore == Init /\ [][NextRestore]_vars

\* the commands over a failing connection
NextCommands ==
    \/ MediaPlay
    \/ MediaPause
    \/ MediaStop
    \/ MediaNextTrack
    \/ MediaPreviousTrack
    \/ MediaSeek
    \/ ClearQueue
    \/ SelectSource
    \/ PlayMediaFailing

SpecCommands == Init /\ [][NextCommands]_vars

\* snapshots taken at any point of a playback and restored
NextResume ==
    \/ TakeSnapshotUp
    \/ RestoreSnapshot
    \/ DeviceProgress
    \/ DevicePause

SpecResume == Init /\ [][NextResume]_vars

\* the events whose handlers write the cache themselves, between polls
NextDirect ==
    \/ UpdateUp
    \/ WsVolumeChanged
    \/ WsMuteChanged
    \/ WsSeeked
    \/ Tick

SpecDirect == Init /\ [][NextDirect]_vars

\* no job is in flight: the workers have finished with the previous event
Drained == jobs = <<>>

\* the events about playback whose handlers hand work to the executor,
\* arriving far enough apart for the workers to finish in between, and the
\* workers
NextEvents ==
    \/ Drained /\ WsOptionsChanged
    \/ Drained /\ WsPlaybackStateChanged
    \/ Drained /\ WsStreamTitleChangedJob
    \/ Drained /\ WsTrackPlaybackStarted
    \/ RunJob

SpecEvents == Init /\ [][NextEvents]_vars

\* the events about the queue, the reconciliation of the queue, and the
\* workers
NextQueueEvents ==
    \/ Drained /\ WsTracklistChanged
    \/ Drained /\ UpdateTracks
    \/ RunJob

SpecQueueEvents == Init /\ [][NextQueueEvents]_vars

\* the two writers of the cache: the poll on its worker, and the handlers of
\* the events about volume, mute, pausing and resuming
NextDualWriter ==
    \/ StartUpdate
    \/ WsVolumeChanged
    \/ WsMuteChanged
    \/ WsTrackPlaybackPaused
    \/ WsTrackPlaybackResumed
    \/ RunJob

SpecDualWriter == Init /\ [][NextDualWriter]_vars

\* the poll on one worker, enqueues on others
NextWorkers ==
    \/ StartUpdate
    \/ StartQueueTracks
    \/ RunJob

SpecWorkers == Init /\ [][NextWorkers]_vars

\* polls and commands over a connection whose websocket thread dies now and
\* then
NextReconnect ==
    \/ Update
    \/ WsThreadDies
    \/ DeviceSettings
    \/ MediaPause
    \/ ClearQueue

SpecReconnect == Init /\ [][NextReconnect]_vars

\* the volume set, turned up and turned down over a connection that may fail,
\* another client setting it in between
NextVolume ==
    \/ SetVolume
    \/ VolumeUp
    \/ VolumeDown
    \/ WsVolumeChanged

SpecVolume == Init /\ [][NextVolume]_vars

\* the consume mode set over a connection that may fail, and polled
NextConsume ==
    \/ SetConsumeMode
    \/ UpdateUp

SpecConsume == Init /\ [][NextConsume]_vars

\* the entity's services and its poll, over a connection that may fail for
\* the first call of _fetch_status
EntityDown == {{}, {"playback.get_current_track"}}

EntitySnapshot ==
    \E F \in EntityDown :
        Return(entity_snapshot(Failing(F)), [Op("snapshot") EXCEPT !.down = F])

\* lastOp.value: the state held by the snapshot that is restored
EntityRestore ==
    \E F \in EntityDown :
        /\ (snapshot # None /\ Val(snapshot).tracklist # None) =>
               dev.nextTlid + Len(Val(Val(snapshot).tracklist)) - 1 <= MaxSnapTlid
        /\ Return(entity_restore(Failing(F)),
                  [Op("restore") EXCEPT !.down = F,
                       !.value = IF snapshot = None THEN "" ELSE Val(snapshot).state])

EntityUpdate == Return(entity_update(World), Op("update"))

\* the volumes another client sets on the entity's device
EntityVolumes == {29, 60}

\* another client sets the volume and switches mute, shuffle and repeat over
DeviceVolume ==
    \E v \in EntityVolumes :
        /\ v # dev.volume
        /\ Device([dev EXCEPT !.volume = v, !.mute = ~dev.mute, !.random = ~dev.random,
                              !.repeat = ~dev.repeat])

InitEntityState ==
    /\ spk = InitEntity
    /\ queue = InitQueue
    /\ snapshot = None
    /\ calls = <<>>
    /\ lastOp = Op("init")
    /\ now = [day |-> FirstDay, hour |-> 9]
    /\ jobs = <<>>
    /\ InitDev

\* snapshots and restores of the entity while other clients use the device
NextEntity ==
    \/ EntitySnapshot
    \/ EntityRestore
    \/ EntityUpdate
    \/ DeviceVolume
    \/ DevicePause
    \/ DeviceProgress

SpecEntity == InitEntityState /\ [][NextEntity]_vars

\* the events that arrive from the construction of the speaker on, the entity
\* being attached at some point
NextAttach ==
    \/ AttachEntity
    \/ WsVolumeChanged
    \/ WsMuteChanged
    \/ WsTrackPlaybackPaused
    \/ WsTrackPlaybackResumed
    \/ UpdateUp

SpecAttach == InitUnattached /\ [][NextAttach]_vars

\* one track starting after another while the jobs of the earlier ones are
\* still in flight
NextSuperseded ==
    \/ WsTrackPlaybackStarted
    \/ RunJob

SpecSuperseded == Init /\ [][NextSuperseded]_vars

-----------------------------------------------------------------------------
(* Properties *)

\* the commands among the calls of an operation: the calls that change the device
Commands(cs) ==
    SelectSeq(cs, LAMBDA c : c \in {"playback.stop", "tracklist.clear", "tracklist.add",
                                    "playback.play", "playback.play(tlid)",
                                    "playback.pause", "playback.seek",
                                    "mixer.set_volume", "mixer.set_mute",
                                    "tracklist.set_repeat", "tracklist.set_single",
                                    "tracklist.set_random"})

\* the tlids of the cached queue
CachedTlids == {queue.queue[i].tlid : i \in 1..Len(queue.queue)}

\* the tl_tracks of ts that the queue `old` did not have, and those it had
Inserted(ts, old) == SelectSeq(ts, LAMBDA t : t.tlid \notin Tlids(old))
Kept(ts, old) == SelectSeq(ts, LAMBDA t : t.tlid \in Tlids(old))

\* xs sits in ts from index `at` (0-based) on
SitsAt(ts, at, xs) ==
    /\ at + Len(xs) <= Len(ts)
    /\ \A k \in 1..Len(xs) : ts[at + k] = xs[k]

\* the step is play_media in the mode `enqueue`
PlayMediaStep(enqueue) == lastOp'.op = "play_media" /\ lastOp'.enqueue = enqueue

\* the state is the one play_media leaves in the mode `enqueue`
PlayMediaDone(enqueue) == lastOp.op = "play_media" /\ lastOp.enqueue = enqueue

(* C1: a snapshot taken from a reachable device and restored right after, with *)
(* nothing in between and a device that starts playing in time, leaves the    *)
(* device with the same ordered queue URIs, volume and mute as before, and    *)
(* playing or paused if it was playing or paused.                             *)
C1_RoundTrip ==
    [][(/\ lastOp.op = "take_snapshot" /\ lastOp.result = "ok" /\ spk.is_available
        /\ lastOp'.op = "restore_snapshot"
        /\ "_LOGGER.error" \notin {calls'[i] : i \in 1..Len(calls')})
       => (/\ Uris(dev'.tracks) = Uris(dev.tracks)
           /\ dev'.volume = dev.volume
           /\ dev'.mute = dev.mute
           /\ (dev.state \in {"playing", "paused"} => dev'.state = dev.state))]_vars

(* C2: after each update_tracks() that fetched the device's queue, the ids of *)
(* the cached queue are exactly the ids the device reports: none from before  *)
(* the last clear of the device's queue, none the device has dropped.         *)
C2_CacheIsDeviceQueue ==
    (lastOp.op = "update_tracks" /\ lastOp.result = "ok")
        => (/\ CachedTlids = Tlids(dev.tracks)
            /\ \A t \in CachedTlids : t >= dev.generation)

\* update_tracks has reconciled the cache with a queue built after a clear
C2_Witness ==
    /\ lastOp.op = "update_tracks" /\ lastOp.result = "ok"
    /\ dev.generation > 1
    /\ Len(queue.queue) > 0
    /\ CachedTlids = Tlids(dev.tracks)

(* C3: restore_snapshot() without a snapshot (none taken, or the last one     *)
(* consumed) sends the device nothing and changes neither the device nor the  *)
(* engine's cached state.                                                     *)
C3_RestoreWithoutSnapshot ==
    [][(lastOp'.op = "restore_snapshot" /\ snapshot = None)
       => (/\ calls' = <<>>
           /\ lastOp'.result = "ok"
           /\ UNCHANGED <<dev, spk, queue, snapshot>>)]_vars

\* a restore has returned without a call, on a device with a queue and a
\* snapshot consumed before (the device has issued ids beyond its first queue)
C3_Witness ==
    /\ lastOp.op = "restore_snapshot" /\ lastOp.result = "ok"
    /\ calls = <<>>
    /\ snapshot = None
    /\ Len(dev.tracks) > 0
    /\ dev.generation > 1

(* C4: play_media() with an unknown enqueue mode, or with any mode when the    *)
(* media id resolves to no URI, fails with MissingMediaInformation and sends  *)
(* the device no command (no stop, clear, add or play).                       *)
C4_NothingToPlayIsRefused ==
    (/\ lastOp.op = "play_media"
     /\ \/ lastOp.enqueue \notin {"add", "next", "play", "replace"}
        \/ MediaUris(lastOp.media_id) = <<>>)
        => (lastOp.result = "MissingMediaInformation" /\ Commands(calls) = <<>>)

(* C5: play_media() in mode REPLACE with a non-empty URI list U, whatever the *)
(* device queue was, issues stop, clear, add, play in that order and leaves   *)
(* the device queue equal to U, playing its entry 0.                          *)
C5_Replace ==
    (PlayMediaDone("replace") /\ MediaUris(lastOp.media_id) # <<>>)
        => (/\ lastOp.result = "ok"
            /\ Commands(calls) = <<"playback.stop", "tracklist.clear",
                                   "tracklist.add", "playback.play">>
            /\ Uris(dev.tracks) = MediaUris(lastOp.media_id)
            /\ dev.state = "playing"
            /\ DevIndex(dev) = Some(0))

\* the playlist [A, B] has replaced an earlier queue and plays from A
C5_Witness ==
    /\ PlayMediaDone("replace") /\ lastOp.media_id = "m3u:mix"
    /\ Uris(dev.tracks) = <<"A", "B">>
    /\ dev.tracks[1].tlid > 2
    /\ dev.state = "playing" /\ DevIndex(dev) = Some(0)

C7_PlayAtDevicePosition ==
    [][(/\ PlayMediaStep("play") /\ MediaUris(lastOp'.media_id) # <<>>
        /\ spk.is_available /\ queue.queue_size # None)
       => LET new == Inserted(dev'.tracks, dev.tracks)
              at == IF DevIndex(dev) = None THEN Len(dev.tracks) ELSE Val(DevIndex(dev))
          IN /\ Uris(new) = MediaUris(lastOp'.media_id)
             /\ SitsAt(dev'.tracks, at, new)
             /\ Kept(dev'.tracks, dev.tracks) = dev.tracks
             /\ dev'.state = "playing"
             /\ dev'.cur = Some(new[1].tlid)]_vars

(* C8: play_media() in mode ADD appends the URIs in order at the tail of the  *)
(* device queue, every existing entry staying at its index, and issues a      *)
(* plain play (never a play of a given tl_track) exactly when the cached      *)
(* state is not PLAYING.                                                      *)
C8_Add ==
    [][PlayMediaStep("add")
       => LET n == Len(dev.tracks)
          IN /\ lastOp'.result = "ok"
             /\ Len(dev'.tracks) >= n
             /\ SubSeq(dev'.tracks, 1, n) = dev.tracks
             /\ Uris(SubSeq(dev'.tracks, n + 1, Len(dev'.tracks)))
                    = MediaUris(lastOp'.media_id)
             /\ Tlids(SubSeq(dev'.tracks, n + 1, Len(dev'.tracks))) \cap Tlids(dev.tracks) = {}
             /\ "playback.play(tlid)" \notin {calls'[i] : i \in 1..Len(calls')}
             /\ ("playback.play" \in {calls'[i] : i \in 1..Len(calls')})
                    <=> (spk.state # Some(PLAYING))]_vars

\* Z was appended to [A, B]; the cached state was not PLAYING, so play was issued
C8_Witness ==
    /\ PlayMediaDone("add") /\ lastOp.media_id = "Z" /\ lastOp.result = "ok"
    /\ Uris(dev.tracks) = <<"A", "B", "Z">>
    /\ Commands(calls) = <<"tracklist.add", "playback.play">>

(* C9: for each x of Off, All, One, the fetch of the repeat mode that follows  *)
(* set_repeat_mode(x) decodes the pair the device then holds back to x.       *)
C9_SetThenGet ==
    [][(/\ lastOp.op = "set_repeat_mode" /\ lastOp.result = "ok"
        /\ lastOp'.op = "get_repeat_mode" /\ lastOp'.result = "ok")
       => spk'.repeat = Some(lastOp.value)]_vars

\* the fetch has decoded the pair (repeat, single) that stands for One
C9_Witness ==
    /\ lastOp.op = "get_repeat_mode" /\ lastOp.result = "ok"
    /\ dev.repeat /\ dev.single
    /\ spk.repeat = Some(ONE)

(* C10 as stated: whatever pair (repeat, single) the device holds, fetching   *)
(* the repeat mode and setting the fetched mode writes the same pair back.    *)
C10_EveryPairRoundTrips ==
    [][(/\ lastOp.op = "get_repeat_mode" /\ lastOp.result = "ok"
        /\ lastOp'.op = "set_repeat_mode"
        /\ spk.repeat = Some(lastOp'.value))
       => (dev'.repeat = dev.repeat /\ dev'.single = dev.single)]_vars

(* C10: fetching the repeat mode and setting the fetched mode writes the same *)
(* pair back for the three pairs (off, off), (repeat, off), (repeat, single); *)
(* the pair (off, single) is fetched as Off and written back as (off, off).   *)
C10_ThreePairsRoundTrip ==
    [][(/\ lastOp.op = "get_repeat_mode" /\ lastOp.result = "ok"
        /\ lastOp'.op = "set_repeat_mode"
        /\ spk.repeat = Some(lastOp'.value))
       => IF ~dev.repeat /\ dev.single
          THEN spk.repeat = Some(OFF) /\ ~dev'.repeat /\ ~dev'.single
          ELSE dev'.repeat = dev.repeat /\ dev'.single = dev.single]_vars

\* One, fetched from the pair (repeat, single), has been written back
C10_Witness ==
    /\ lastOp.op = "set_repeat_mode" /\ lastOp.value = ONE
    /\ spk.repeat = Some(ONE)
    /\ dev.repeat /\ dev.single

\* the override title T stands: the current track and its entry both carry it
TitleOverridden(q) ==
    /\ q.current_track_tlid # None
    /\ q.current_track_title # None
    /\ q.current_track_is_stream = Some(TRUE)
    /\ HasTlid(q.queue, Val(q.current_track_tlid))
    /\ Entry(q.queue, Val(q.current_track_tlid)).title = q.current_track_title
    /\ Entry(q.queue, Val(q.current_track_tlid)).is_stream = Some(TRUE)

(* C11: once a stream-title-changed event has put the title T on the current  *)
(* track and its entry, an update_tracks() that finds the current tlid still  *)
(* in the device's queue leaves the current title and the entry's title equal *)
(* to T and the stream flag set; by induction, so does any number of them.    *)
C11_OverrideSurvivesUpdateTracks ==
    [][(/\ lastOp'.op = "update_tracks"
        /\ TitleOverridden(queue)
        /\ Val(queue.current_track_tlid) \in Tlids(dev.tracks))
       => (/\ TitleOverridden(queue')
           /\ queue'.current_track_tlid = queue.current_track_tlid
           /\ queue'.current_track_title = queue.current_track_title)]_vars

\* update_tracks has refreshed the entry that carries the override title T1
C11_Witness ==
    /\ lastOp.op = "update_tracks" /\ lastOp.result = "ok"
    /\ TitleOverridden(queue)
    /\ queue.current_track_title = Some("T1")
    /\ dev.stream_title = Some("T1")
    /\ Entry(queue.queue, Val(queue.current_track_tlid)).index = Some(1)
    /\ Len(dev.tracks) = 3

\* the URLs u and v are the same but for the value of the mopt parameter
SameButMopt(u, v) ==
    /\ u.scheme = v.scheme /\ u.netloc = v.netloc /\ u.path = v.path
    /\ Len(u.query) = Len(v.query)
    /\ \A i \in 1..Len(u.query) :
        /\ u.query[i][1] = v.query[i][1]
        /\ u.query[i][1] # "mopt" => u.query[i][2] = v.query[i][2]

(* C12: when the same image reference is expanded twice in a row for a track, *)
(* the two URLs are identical if both expansions happen on the same day, and  *)
(* differ at most in the value of the mopt parameter if they happen on        *)
(* different days.                                                            *)
C12_ArtworkUrlPerDay ==
    [][(/\ lastOp.op = "update_current_image_url" /\ lastOp.result = "ok"
        /\ lastOp'.op = "update_current_image_url" /\ lastOp'.result = "ok"
        /\ lastOp'.value = lastOp.value
        /\ queue.current_track_image_url # None)
       => /\ queue'.current_track_image_url # None
          /\ IF now'.day = now.day
             THEN queue'.current_track_image_url = queue.current_track_image_url
             ELSE SameButMopt(Val(queue.current_track_image_url),
                              Val(queue'.current_track_image_url))]_vars

\* a reference with a repeated and a blank parameter, expanded on the second
\* day against the base URL, carries that day's stamp
C12_Witness ==
    /\ lastOp.op = "update_current_image_url" /\ lastOp.result = "ok"
    /\ lastOp.value = "/local/b.jpg?v=1&v=2&w="
    /\ now.day = FirstDay + 1
    /\ queue.current_track_image_url =
           Some([scheme |-> "http", netloc |-> "mopidy:6680", path |-> "/local/b.jpg",
                 query |-> << <<"v", "2">>, <<"mopt", "20261106">> >>])

\* the calls of the last operation that met a failing connection
FailedCalls == {c \in lastOp.down : \E i \in 1..Len(calls) : calls[i] = c}

\* C13: whatever calls of one update() fail, update() returns normally, and
\* is_available is false on return when a call it made has failed.
C13_UpdateNeverRaises ==
    (lastOp.op = "update" /\ FailedCalls # {}) =>
        /\ lastOp.result = "ok"
        /\ ~spk.is_available

\* the scalar device-state fields of the speaker
ScalarFields ==
    {"software_version", "supported_uri_schemes", "consume_mode", "source_list",
     "volume_level", "is_volume_muted", "state", "repeat", "shuffle"}

\* C14: when the version query fails, update() logs the failure and makes no
\* further call, and on return is_available is false, every scalar device-state
\* field is empty and the current-track pointer is cleared.
C14_ProbeFailureResets ==
    (lastOp.op = "update" /\ "core.get_version" \in lastOp.down) =>
        /\ calls = <<"core.get_version", ErrorRecord("core.get_version")>>
        /\ lastOp.result = "ok"
        /\ ~spk.is_available
        /\ \A f \in ScalarFields : spk[f] = None
        /\ queue.current_track_tlid = None
        /\ queue.current_track_uri = None
        /\ queue.current_track_position = None

\* the probe fails after a refresh that had filled the fields and the pointer
C14_Witness ==
    /\ lastOp.op = "update"
    /\ "core.get_version" \in lastOp.down
    /\ dev.cur # None
    /\ Len(queue.queue) > 0
    /\ spk.volume_level = None
    /\ queue.current_track_tlid = None

\* the speaker field each scalar call of update() fills
FieldOf(call) ==
    CASE call = "core.get_uri_schemes" -> "supported_uri_schemes"
      [] call = "tracklist.get_consume" -> "consume_mode"
      [] call = "playlists.as_list" -> "source_list"
      [] call = "mixer.get_volume" -> "volume_level"
      [] call = "mixer.get_mute" -> "is_volume_muted"
      [] call = "tracklist.get_random" -> "shuffle"
      [] call = "playback.get_state" -> "state"
      [] call = "tracklist.get_repeat" -> "repeat"
      [] call = "tracklist.get_single" -> "repeat"

ScalarCalls ==
    {"core.get_uri_schemes", "tracklist.get_consume", "playlists.as_list",
     "mixer.get_volume", "mixer.get_mute", "tracklist.get_random",
     "playback.get_state", "tracklist.get_repeat", "tracklist.get_single"}

\* what a successful fetch of the field writes, given the device
Fresh(d, f) ==
    CASE f = "supported_uri_schemes" -> Some(UriSchemes)
      [] f = "consume_mode" -> Some(d.consume)
      [] f = "source_list" -> Some(PlaylistNames)
      [] f = "volume_level" -> Some(d.volume)
      [] f = "is_volume_muted" -> Some(d.mute)
      [] f = "shuffle" -> Some(d.random)
      [] f = "state" -> eval_state(d.state)
      [] f = "repeat" -> Some(repeat_mode_of(d.repeat, d.single))

\* C15: in an update() whose probe succeeded and in which the call for exactly
\* one scalar field fails, that field keeps its value, every call of the
\* refresh is still made, the other fields are applied, and is_available is
\* false on return.
C15_OneFieldFailureIsIsolated ==
    [][\A c \in ScalarCalls :
          (lastOp'.op = "update" /\ lastOp'.down = {c}) =>
              /\ lastOp'.result = "ok"
              /\ spk'[FieldOf(c)] = spk[FieldOf(c)]
              /\ \A f \in (ScalarFields \ {"software_version", FieldOf(c)}) :
                     spk'[f] = Fresh(dev, f)
              /\ \A k \in ScalarCalls : \E i \in 1..Len(calls') : calls'[i] = k
              /\ ~spk'.is_available]_vars

\* C16: after restore_snapshot() returns for a stored snapshot, whatever the
\* captured playback status, no snapshot is stored any more.
C16_SnapshotIsSingleUse ==
    [][(/\ lastOp'.op = "restore_snapshot"
        /\ snapshot # None
        /\ Val(snapshot).state \in {Some(IDLE), Some(PLAYING), Some(PAUSED)}
        /\ lastOp'.result = "ok")
          => snapshot' = None]_vars

\* the number of calls of one method among the calls of an operation
Count(cs, method) == Len(SelectSeq(cs, LAMBDA c : c = method))

\* the restore gave up waiting for the device to play
TimedOut == \E i \in 1..Len(calls) : calls[i] = "_LOGGER.error"

\* C17: restore_snapshot() polls the playback status a bounded number of
\* times (PollLimit waits); when the device does not start playing in time it
\* stops polling, drops the snapshot, issues neither seek nor pause and returns.
C17_PollingIsBounded ==
    lastOp.op = "restore_snapshot" =>
        /\ Count(calls, "playback.get_state") <= PollLimit + 1
        /\ TimedOut =>
              /\ Count(calls, "playback.get_state") = PollLimit + 1
              /\ calls[Len(calls)] = "_LOGGER.error"
              /\ snapshot = None
              /\ Count(calls, "playback.seek") = 0
              /\ Count(calls, "playback.pause") = 0
              /\ lastOp.result = "ok"

\* a restore that gave up after the full number of polls
C17_Witness ==
    /\ lastOp.op = "restore_snapshot"
    /\ TimedOut
    /\ Count(calls, "playback.get_state") = PollLimit + 1
    /\ Count(calls, "playback.play(tlid)") = 1
    /\ snapshot = None

\* the calls steps 1-3 of a restore of snapshot s are to make, in order
RestoreSteps(s) ==
    <<"playback.stop", "tracklist.clear">>
       \o (IF Len(s.queue_list) > 0 THEN <<"tracklist.add">> ELSE <<>>)
       \o (IF s.volume # None THEN <<"mixer.set_volume">> ELSE <<>>)
       \o <<"mixer.set_mute">>

\* C18: when the call of one of steps 1-3 of restore_snapshot() fails, the
\* remaining steps are still issued.
C18_RestoreIsBestEffort ==
    [][(/\ lastOp'.op = "restore_snapshot"
        /\ snapshot # None
        /\ lastOp'.down # {})
          => SelectSeq(calls', LAMBDA c : c \in RestoreCalls) = RestoreSteps(Val(snapshot))]_vars

\* the command operations of the speaker
CommandOps ==
    {"play_media", "media_play", "media_pause", "media_stop", "media_next_track",
     "media_previous_track", "media_seek", "clear_queue", "select_source"}

\* C19: no command returns normally after a call it made has failed.
C19_CommandFailuresPropagate ==
    (lastOp.op \in CommandOps /\ FailedCalls # {}) => lastOp.result # "ok"

\* C20: after a successful restore the device's shuffle flag and repeat mode
\* are the captured ones, whatever happened to them since the snapshot.
C20_OptionsRestored ==
    [][(/\ lastOp'.op = "restore_snapshot"
        /\ lastOp'.down = {}
        /\ lastOp'.result = "ok"
        /\ snapshot # None
        /\ Val(snapshot).shuffled # None
        /\ Val(snapshot).repeat_mode # None)
          => /\ dev'.random = Val(Val(snapshot).shuffled)
             /\ repeat_mode_of(dev'.repeat, dev'.single) = Val(Val(snapshot).repeat_mode)]_vars

\* C21: after a successful update_tracks(), whatever insertions and removals
\* came before, uri_list is the device's queue: its i-th element is the uri of
\* the entry whose index is i.
C21_UriListInQueueOrder ==
    (lastOp.op = "update_tracks" /\ lastOp.result = "ok") =>
        /\ uri_list(queue) = Uris(dev.tracks)
        /\ \A i \in 1..Len(queue.queue) :
               \E k \in 1..Len(queue.queue) :
                   /\ queue.queue[k].index = Some(i - 1)
                   /\ queue.queue[k].uri = Some(uri_list(queue)[i])

\* the calls of a restore that act on the device or poll it
RestoreTrace(cs) ==
    SelectSeq(cs, LAMBDA c : c \in RestoreCalls \cup {"playback.play(tlid)", "playback.get_state",
                                                      "playback.seek", "playback.pause"})

\* the calls a restore of snapshot s makes from the play on, having polled n
\* times, the last poll seeing the device play or not
RestoreTail(s, n, seen) ==
    IF s.state \notin {Some(PLAYING), Some(PAUSED)} THEN <<>>
    ELSE <<"playback.play(tlid)">> \o polls(n)
            \o (IF seen /\ Val(s.mediaposition) > 0 THEN <<"playback.seek">> ELSE <<>>)
            \o (IF seen /\ s.state = Some(PAUSED) THEN <<"playback.pause">> ELSE <<>>)

\* C22: a restore that returns makes its calls in the order stop, clear, add,
\* set volume, set mute and then, for a snapshot captured as Playing or Paused
\* only, play, the polls, seek (after a poll saw the device play, for a
\* nonzero position) and pause (for a snapshot captured as Paused).
C22_RestoreOrder ==
    [][(lastOp'.op = "restore_snapshot" /\ snapshot # None /\ lastOp'.result = "ok") =>
          LET s == Val(snapshot)
              n == Count(calls', "playback.get_state")
              seen == \A i \in 1..Len(calls') : calls'[i] # "_LOGGER.error"
          IN /\ RestoreTrace(calls') = RestoreSteps(s) \o RestoreTail(s, n, seen)
             /\ s.state \in {Some(PLAYING), Some(PAUSED)} => n >= 1
             /\ (s.state \in {Some(PLAYING), Some(PAUSED)} /\ seen) =>
                    DevIndex(dev') = s.queue_index]_vars

\* a snapshot captured as Paused at a nonzero position was restored through
\* to the pause
C22_Witness ==
    /\ lastOp.op = "restore_snapshot"
    /\ lastOp.result = "ok"
    /\ Count(calls, "playback.seek") = 1
    /\ Count(calls, "playback.pause") = 1
    /\ Count(calls, "tracklist.add") = 1

\* C23: after a successful restore of a snapshot captured at p > 0 seconds,
\* the device, which counts in milliseconds, is at p * 1000.
C23_SeekInMilliseconds ==
    [][(/\ lastOp'.op = "restore_snapshot"
        /\ lastOp'.result = "ok"
        /\ snapshot # None
        /\ Count(calls', "playback.seek") = 1)
          => dev'.time = Val(Val(snapshot).mediaposition) * 1000]_vars

\* C24: once a polled update() has found the device stopped, with no fetch in
\* flight, the current track's id, uri, title and position are all empty.
C24_IdleClearsCurrentTrack ==
    (lastOp.op = "update" /\ lastOp.result = "ok" /\ spk.state = Some(IDLE)) =>
        /\ queue.current_track_tlid = None
        /\ queue.current_track_uri = None
        /\ queue.current_track_title = None
        /\ queue.current_track_position = None

\* C30: a volume-changed event changes only the cached volume, a mute-changed
\* event only the cached mute flag, a seeked event only the current position
\* and its timestamp; each makes no call to the device and notifies the
\* observer exactly once.
C30_DirectHandlersAreFieldLevel ==
    [][/\ lastOp'.op = "volume_changed" =>
              /\ spk' = [spk EXCEPT !.volume_level = Some(lastOp'.value)]
              /\ UNCHANGED <<queue, snapshot, jobs>>
       /\ lastOp'.op = "mute_changed" =>
              /\ spk' = [spk EXCEPT !.is_volume_muted = Some(lastOp'.value)]
              /\ UNCHANGED <<queue, snapshot, jobs>>
       /\ lastOp'.op = "seeked" =>
              /\ queue' = [queue EXCEPT
                              !.current_track_position = Some(lastOp'.value \div 1000),
                              !.current_track_position_updated_at = Some(now)]
              /\ UNCHANGED <<spk, snapshot, jobs>>
       /\ lastOp'.op \in {"volume_changed", "mute_changed", "seeked"} =>
              /\ calls' = <<"entity.force_update_ha_state">>
              /\ lastOp'.result = "ok"]_vars

\* a seek into the third second was handled an hour after the last poll, with
\* the cache filled and the device paused
C30_Witness ==
    /\ lastOp.op = "seeked"
    /\ lastOp.value = 2999
    /\ queue.current_track_position = Some(2)
    /\ queue.current_track_position_updated_at = Some([day |-> FirstDay, hour |-> 10])
    /\ spk.state = Some(PAUSED)
    /\ spk.volume_level = Some(60)

\* C25: once the follow-on fetch of a tracklist-changed event has completed and
\* no job is left in flight, every local entry the device still has carries as
\* its index its position in the device's queue.
C25_TracklistChangedRefreshesIndex ==
    (lastOp.op = "update_queue_information" /\ lastOp.result = "ok" /\ Drained) =>
        \A k \in 1..Len(queue.queue) : \A i \in 1..Len(dev.tracks) :
            dev.tracks[i].tlid = queue.queue[k].tlid => queue.queue[k].index = Some(i - 1)

\* C26: a follow-on fetch that has written into the cache ends with a
\* state-changed notification: nothing it wrote is left unannounced.
C26_FetchNotifiesAfterWriting ==
    [][(lastOp'.step # "" /\ lastOp'.result = "ok" /\ <<spk', queue'>> # <<spk, queue>>)
          => \E k \in 1..Len(calls') : calls'[k] = "entity.force_update_ha_state"]_vars

\* C28: an artwork resolution that completes for a track which is no longer
\* the current one leaves the current track's image URL as it is.
C28_StaleArtworkIsDiscarded ==
    [][(/\ lastOp'.step = "update_current_image_url"
        /\ lastOp'.result = "ok"
        /\ queue.current_track_uri # Some(lastOp'.value))
          => queue'.current_track_image_url = queue.current_track_image_url]_vars

\* C29: with no poll and no follow-on fetch in flight, whatever the engine has
\* cached of the volume, the mute flag and the playback state is the device's.
C29_DualWriterConverges ==
    Drained =>
        /\ spk.volume_level \in {None, Some(dev.volume)}
        /\ spk.is_volume_muted \in {None, Some(dev.mute)}
        /\ spk.state \in {None, eval_state(dev.state)}

\* C27: at no time are two executions of update_tracks() in flight together.
C27_UpdateTracksIsSerialized == Cardinality(InUpdateTracks) <= 1

\* C31: of two consecutive update() calls in which the same fetch fails, the
\* second emits no error-level record for it: one record per failure streak.
C31_ErrorLoggedOncePerStreak ==
    [][\A i \in 1..Len(UpdateCalls) :
          (/\ lastOp.op = "update" /\ UpdateCalls[i] \in FailedCalls
           /\ lastOp'.op = "update" /\ UpdateCalls[i] \in FailedCalls')
              => \A k \in 1..Len(calls') : calls'[k] # ErrorRecord(UpdateCalls[i])]_vars

\* C32: an update() whose version probe is answered and which finds the
\* websocket thread dead creates a new MopidyAPI right after the probe, with a
\* live thread and the handlers of all ten events, before any other fetch; the
\* MopidyAPI is replaced by no other step, and without such an update() a dead
\* thread stays dead.
C32_ReconnectIsLazyAndComplete ==
    [][/\ (lastOp'.op = "update" /\ spk'.software_version # None /\ ~spk.wsthread_alive) =>
              /\ spk'.api # spk.api
              /\ spk'.wsthread_alive
              /\ spk'.callbacks = EventNames
              /\ calls'[1] = "core.get_version"
              /\ calls'[2] = "MopidyAPI"
       /\ spk'.api # spk.api =>
              (lastOp'.op = "update" /\ spk'.software_version # None /\ ~spk.wsthread_alive)
       /\ (~spk.wsthread_alive /\ spk'.wsthread_alive) => spk'.api # spk.api]_vars

\* an update() has replaced the MopidyAPI whose thread had died
C32_Witness ==
    /\ lastOp.op = "update"
    /\ spk.api > 1
    /\ Len(calls) > 2
    /\ calls[2] = "MopidyAPI"
    /\ spk.callbacks = EventNames

\* C33: when clear_queue() has returned, the device having cleared its queue,
\* the local queue holds no entry whose tlid was issued before the clear.
C33_ClearPurgesPriorIds ==
    (lastOp.op = "clear_queue" /\ lastOp.result = "ok" /\ lastOp.down = {}) =>
        \A k \in 1..Len(queue.queue) : queue.queue[k].tlid >= dev.generation

\* the volume v held to 0..100
Clamped(v) == IF v >= 100 THEN 100 ELSE IF v <= 0 THEN 0 ELSE v

\* C34: set_volume(v), volume_up() and volume_down() leave the device's and the
\* cached volume in 0..100; volume_up and volume_down move the cached volume by
\* 5, held to 0..100, and do nothing when it is unknown; a call that failed
\* leaves the cached volume as it was.
C34_VolumeStaysInRange ==
    [][lastOp'.op \in {"set_volume", "volume_up", "volume_down"} =>
          LET target == CASE lastOp'.op = "set_volume" -> lastOp'.value
                          [] spk.volume_level = None -> None
                          [] lastOp'.op = "volume_up" -> Some(Val(spk.volume_level) + 5)
                          [] OTHER -> Some(Val(spk.volume_level) - 5)
          IN /\ dev'.volume \in 0..100
             /\ spk'.volume_level \in {None} \cup {Some(v) : v \in 0..100}
             /\ target = None => (calls' = <<>> /\ UNCHANGED <<dev, spk>>)
             /\ (target # None /\ lastOp'.result = "ok") =>
                    /\ dev'.volume = Clamped(Val(target))
                    /\ spk'.volume_level = Some(Clamped(Val(target)))
             /\ lastOp'.result # "ok" => UNCHANGED <<dev, spk>>]_vars

\* the volume was turned up against the upper end, and down against the lower
C34_Witness ==
    \/ lastOp.op = "volume_up" /\ lastOp.result = "ok" /\ spk.volume_level = Some(100)
                               /\ calls = <<"mixer.set_volume">>
    \/ lastOp.op = "volume_down" /\ lastOp.result = "ok" /\ spk.volume_level = Some(0)
                                 /\ calls = <<"mixer.set_volume">>

\* C35: the current-track pointer never dangles: a current tlid that is not
\* None is the tlid of an entry of the local queue.
C35_CurrentTrackIsQueued ==
    queue.current_track_tlid # None => HasTlid(queue.queue, Val(queue.current_track_tlid))

\* C36: the queue and the library use the MopidyAPI object of the speaker.
C36_ComponentsShareApi ==
    /\ queue.api = spk.api
    /\ spk.library_api = spk.api

\* C37: when set_consume_mode(v) for a boolean v has returned without error,
\* whatever attempts failed before, the device's consume mode is v.
C37_ConsumeModeInStep ==
    (lastOp.op = "set_consume_mode" /\ lastOp.result = "ok" /\ lastOp.value # None) =>
        dev.consume = Val(lastOp.value)

\* the events of the handlers that write the cache themselves
DirectEvents ==
    {"volume_changed", "mute_changed", "track_playback_paused", "track_playback_resumed"}

\* C38: the handler of an event delivered at any time after the construction of
\* the speaker returns without raising.
C38_HandlersNeverRaise ==
    lastOp.op \in DirectEvents => lastOp.result = "ok"

\* C39: play_media in the enqueue mode NEXT returns without error whatever the
\* queue, a stopped or empty one with no cached position included, and leaves
\* the uris in the queue of a playing device.
C39_NextCompletes ==
    PlayMediaDone("next") =>
        /\ lastOp.result = "ok"
        /\ \A m \in Media :
               m[2] = lastOp.media_id =>
                   \A k \in 1..Len(media_uris_of(m[1], m[2])) :
                       \E i \in 1..Len(dev.tracks) :
                           dev.tracks[i].uri = media_uris_of(m[1], m[2])[k]
        /\ dev.state = "playing"

\* restore() returned, having restored a snapshot taken while playing or paused
RestoredPlayback ==
    /\ lastOp.op = "restore"
    /\ lastOp.result = "ok"
    /\ lastOp.value \in {STATE_PLAYING, STATE_PAUSED}

\* C40: once the entity's restore() of a snapshot taken while playing or paused
\* has returned, with the device playing and nothing of the restore left to
\* run, the snapshot is cleared, so that a second restore() does nothing.
C40_RestoreClearsSnapshot ==
    (RestoredPlayback /\ dev.state = "playing") => snapshot = None

====
